---- MODULE Spec2Model ----
(***************************************************************************)
(* A model of the news dashboard generator (jtmurphysr/news):              *)
(*   feed_parser.py     FeedEntry, FeedParser.clean_content / format_date  *)
(*   unified_parser.py  UnifiedNewsParser (syndication feeds, NewsAPI)     *)
(*   weather_parser.py  WeatherParser (OpenWeather)                        *)
(*   main.py            main(): build parsers, collect, sort, render       *)
(*   html_generator.py  HTMLGenerator: generate_html, save_html            *)
(*                                                                         *)
(* Python str values are TLA+ strings; TLC evaluates Len, \o, SubSeq, Head *)
(* and Tail on them, so text is processed character by character as the    *)
(* Python code (and the re / html / datetime library calls it makes) does. *)
(* Python None is the model value None; a dict is a record or a function   *)
(* whose DOMAIN is the set of keys present.                                *)
(***************************************************************************)
EXTENDS Integers, Sequences, FiniteSets, TLC

VARIABLES
    pc,               \* position of the running program / call
    news_api_key,     \* main: os.getenv('NEWS_API')
    weather_api_key,  \* main: os.getenv('WEATHER_API')
    parsers,          \* main: the list of constructed parsers
    idx,              \* main: position of the collection loop in parsers
    all_entries,      \* main: the merged list
    log,              \* history: one record per parser.parse() call made by main
    requests,         \* history: the endpoints an HTTP GET was issued to
    files,            \* the files written to the output directory
    output_file,      \* main: the path save_html returned
    arg,              \* the argument of a directly invoked operation
    ret               \* what the last call came to: a directly invoked operation's
                      \* result, or the outcome of parser.parse() in main's loop

vars == <<pc, news_api_key, weather_api_key, parsers, idx, all_entries, log,
          requests, files, output_file, arg, ret>>

None == "<None>"      \* Python None (a value no str of the model equals)

(***************************************************************************)
(* Bounds of the model.                                                    *)
(***************************************************************************)
MaxCleanLen == 3      \* clean_content is applied to every string up to this length
MaxFormats == 3       \* format_date is given every candidate list up to this length

(***************************************************************************)
(* Strings.                                                                *)
(***************************************************************************)
Char(s, i) == SubSeq(s, i, i)

Min(S) == CHOOSE x \in S : \A y \in S : x <= y
Max(S) == CHOOSE x \in S : \A y \in S : x >= y

\* str.isspace / the regex class \s, on the characters of the model.
IsSpace(c) == c \in {" ", "\t", "\n", "\r", "\f"}

IsDigit(c) == c \in {"0", "1", "2", "3", "4", "5", "6", "7", "8", "9"}

\* int(c) of a digit character.
DigitVal(c) == CHOOSE d \in 0..9 : Char("0123456789", d + 1) = c

\* Printable ASCII in code order: 32 (space) to 95 (_), and 97 (a) to 126 (~).
\* (Code 96, the backquote, cannot be written in a TLA+ string and occurs in
\* no text of the model.)
AsciiLow == " !\"#$%&'()*+,-./0123456789:;<=>?@ABCDEFGHIJKLMNOPQRSTUVWXYZ[\\]^_"
AsciiHigh == "abcdefghijklmnopqrstuvwxyz{|}~"

\* ord(c): the code point that Python's str comparison compares.
Ord(c) ==
    IF c = "\t" THEN 9
    ELSE IF c = "\n" THEN 10
    ELSE IF c = "\f" THEN 12
    ELSE IF c = "\r" THEN 13
    ELSE IF \E i \in 1..Len(AsciiLow) : Char(AsciiLow, i) = c
         THEN 31 + (CHOOSE i \in 1..Len(AsciiLow) : Char(AsciiLow, i) = c)
         ELSE 96 + (CHOOSE i \in 1..Len(AsciiHigh) : Char(AsciiHigh, i) = c)

\* Python's s < t on str: lexicographic by code point, a proper prefix first.
RECURSIVE StrLessFrom(_, _, _)
StrLessFrom(s, t, i) ==
    IF i > Len(t) THEN FALSE
    ELSE IF i > Len(s) THEN TRUE
    ELSE IF Char(s, i) = Char(t, i) THEN StrLessFrom(s, t, i + 1)
    ELSE Ord(Char(s, i)) < Ord(Char(t, i))

StrLess(s, t) == StrLessFrom(s, t, 1)

\* str.lower() on ASCII letters.
LowerChar(c) ==
    LET up == "ABCDEFGHIJKLMNOPQRSTUVWXYZ"
        hit == {i \in 1..26 : Char(up, i) = c}
    IN  IF hit = {} THEN c
        ELSE Char("abcdefghijklmnopqrstuvwxyz", CHOOSE i \in hit : TRUE)

RECURSIVE Lower(_)
Lower(s) == IF s = "" THEN "" ELSE LowerChar(Head(s)) \o Lower(Tail(s))

\* Every string of exactly n characters / of at most n characters over chars.
RECURSIVE StringsOfLen(_, _)
StringsOfLen(chars, n) ==
    IF n = 0 THEN {""}
    ELSE {s \o c : s \in StringsOfLen(chars, n - 1), c \in chars}

StringsUpTo(chars, n) == UNION {StringsOfLen(chars, k) : k \in 0..n}

\* Every sequence of at most n elements of S.
SeqsUpTo(S, n) == UNION {[1..k -> S] : k \in 0..n}

(***************************************************************************)
(* FeedParser.clean_content (feed_parser.py 65-84).                        *)
(***************************************************************************)

\* re.sub(r'<[^>]+>', '', content): a match starts at a '<' that is followed
\* by at least one character other than '>' and then a '>'; it ends at the
\* first '>' after the '<'.  TagEnd is that end, or 0 when no match starts
\* at i.
TagEnd(s, i) ==
    LET closers == {j \in (i + 1)..Len(s) : Char(s, j) = ">"}
    IN  IF closers = {} THEN 0
        ELSE IF Min(closers) >= i + 2 THEN Min(closers) ELSE 0

RECURSIVE StripTagsFrom(_, _)
StripTagsFrom(s, i) ==
    IF i > Len(s) THEN ""
    ELSE IF Char(s, i) = "<" /\ TagEnd(s, i) # 0
         THEN StripTagsFrom(s, TagEnd(s, i) + 1)
         ELSE Char(s, i) \o StripTagsFrom(s, i + 1)

StripTags(s) == StripTagsFrom(s, 1)

\* html.entities.html5, restricted to the references lt, gt and amp in
\* lower and upper case, with and without the ';' (the table holds both).
\* The model's inputs contain no other reference name of the table.
Html5 ==
    [x \in {"lt", "lt;", "LT", "LT;", "gt", "gt;", "GT", "GT;",
            "amp", "amp;", "AMP", "AMP;"} |->
        CASE x \in {"lt", "lt;", "LT", "LT;"} -> "<"
          [] x \in {"gt", "gt;", "GT", "GT;"} -> ">"
          [] x \in {"amp", "amp;", "AMP", "AMP;"} -> "&"]

\* The character class [^\t\n\f <&#;] of html's character-reference regex.
IsRefChar(c) == c \notin {"\t", "\n", "\f", " ", "<", "&", "#", ";"}

\* How many characters from position i on belong to the reference name
\* ({1,32}, greedy).
RECURSIVE RefNameLen(_, _, _)
RefNameLen(s, i, n) ==
    IF n < 32 /\ i + n <= Len(s) /\ IsRefChar(Char(s, i + n))
    THEN RefNameLen(s, i, n + 1)
    ELSE n

\* html._replace_charref for a named reference r (the text after '&',
\* with its ';' when present): the whole name, else its longest proper
\* prefix of at least two characters that is a name, else unchanged.
ReplaceCharref(r) ==
    IF r \in DOMAIN Html5 THEN Html5[r]
    ELSE LET cut == {x \in 2..(Len(r) - 1) : SubSeq(r, 1, x) \in DOMAIN Html5}
         IN  IF cut = {} THEN "&" \o r
             ELSE Html5[SubSeq(r, 1, Max(cut))] \o SubSeq(r, Max(cut) + 1, Len(r))

\* html.unescape: one left-to-right pass; replaced text is not rescanned.
\* (Numeric references, &#...;, are outside the model's inputs.)
RECURSIVE UnescapeFrom(_, _)
UnescapeFrom(s, i) ==
    IF i > Len(s) THEN ""
    ELSE IF Char(s, i) # "&" THEN Char(s, i) \o UnescapeFrom(s, i + 1)
    ELSE LET n == RefNameLen(s, i + 1, 0)
             semi == IF i + n + 1 <= Len(s) /\ Char(s, i + n + 1) = ";" THEN 1 ELSE 0
         IN  IF n = 0 THEN "&" \o UnescapeFrom(s, i + 1)
             ELSE ReplaceCharref(SubSeq(s, i + 1, i + n + semi))
                      \o UnescapeFrom(s, i + n + semi + 1)

Unescape(s) == UnescapeFrom(s, 1)

\* re.sub(r'\s+', ' ', content)
RECURSIVE CollapseSpacesFrom(_, _)
CollapseSpacesFrom(s, i) ==
    IF i > Len(s) THEN ""
    ELSE IF IsSpace(Char(s, i))
         THEN IF i > 1 /\ IsSpace(Char(s, i - 1))
              THEN CollapseSpacesFrom(s, i + 1)
              ELSE " " \o CollapseSpacesFrom(s, i + 1)
         ELSE Char(s, i) \o CollapseSpacesFrom(s, i + 1)

CollapseSpaces(s) == CollapseSpacesFrom(s, 1)

\* str.strip()
Strip(s) ==
    LET keep == {i \in 1..Len(s) : ~IsSpace(Char(s, i))}
    IN  IF keep = {} THEN "" ELSE SubSeq(s, Min(keep), Max(keep))

clean_content(content) == Strip(CollapseSpaces(Unescape(StripTags(content))))

(***************************************************************************)
(* datetime.strptime / strftime, as FeedParser.format_date and the         *)
(* adapters call them.  strptime turns the format into a regular           *)
(* expression (case-insensitive, whitespace in the format matching \s+),   *)
(* matches it at the start of the text, rejects text left over, and then   *)
(* builds the datetime, which rejects impossible dates.  Every rejection   *)
(* is a ValueError.  The directives of the model are %Y %m %d %H %M %S %a  *)
(* %b %z, each used at most once in a format; the locale is C.             *)
(***************************************************************************)
Digits == "0123456789"
Digits19 == "123456789"

\* The format as tokens: a directive, a run of whitespace, or a literal.
RECURSIVE Tokenize(_, _)
Tokenize(fmt, i) ==
    IF i > Len(fmt) THEN <<>>
    ELSE IF Char(fmt, i) = "%"
         THEN <<[k |-> "dir", c |-> Char(fmt, i + 1)]>> \o Tokenize(fmt, i + 2)
    ELSE IF IsSpace(Char(fmt, i))
         THEN IF i > 1 /\ IsSpace(Char(fmt, i - 1))
              THEN Tokenize(fmt, i + 1)
              ELSE <<[k |-> "ws", c |-> " "]>> \o Tokenize(fmt, i + 1)
    ELSE <<[k |-> "lit", c |-> Char(fmt, i)]>> \o Tokenize(fmt, i + 1)

\* The alternatives of a numeric directive's regular expression, in the
\* order the expression lists them; each is a sequence of character classes.
DirPatterns(c) ==
    CASE c = "d" -> << <<"3", "01">>, <<"12", Digits>>, <<"0", Digits19>>,
                       <<Digits19>>, <<" ", Digits19>> >>
      [] c = "H" -> << <<"2", "0123">>, <<"01", Digits>>, <<Digits>> >>
      [] c = "M" -> << <<"012345", Digits>>, <<Digits>> >>
      [] c = "S" -> << <<"6", "01">>, <<"012345", Digits>>, <<Digits>> >>
      [] c = "m" -> << <<"1", "012">>, <<"0", Digits19>>, <<Digits19>> >>
      [] c = "Y" -> << <<Digits, Digits, Digits, Digits>> >>

InClass(c, class) == \E j \in 1..Len(class) : Char(class, j) = c

MatchesPat(s, pos, pat) ==
    /\ pos + Len(pat) - 1 <= Len(s)
    /\ \A j \in 1..Len(pat) : InClass(Char(s, pos + j - 1), pat[j])

\* time.strptime's locale names, lower-cased as its regular expression has them.
WeekdayNames == <<"mon", "tue", "wed", "thu", "fri", "sat", "sun">>
MonthNames == <<"jan", "feb", "mar", "apr", "may", "jun",
                "jul", "aug", "sep", "oct", "nov", "dec">>

NameIndex(names, txt) ==
    LET hit == {j \in 1..Len(names) : names[j] = Lower(txt)}
    IN  IF hit = {} THEN 0 ELSE CHOOSE j \in hit : TRUE

\* %z: [+-]\d\d:?[0-5]\d(:?[0-5]\d)? or a capital Z.  The optional parts
\* are greedy, so the longer reading comes first.  (Fractional seconds of
\* an offset are outside the model's inputs.)
ZoneAlts(s, pos) ==
    IF pos <= Len(s) /\ Char(s, pos) = "Z" THEN <<1>>
    ELSE IF ~(pos + 2 <= Len(s) /\ InClass(Char(s, pos), "+-")
              /\ IsDigit(Char(s, pos + 1)) /\ IsDigit(Char(s, pos + 2)))
         THEN <<>>
    ELSE LET c1 == IF pos + 3 <= Len(s) /\ Char(s, pos + 3) = ":" THEN 1 ELSE 0
             m == pos + 3 + c1
         IN  IF ~MatchesPat(s, m, <<"012345", Digits>>) THEN <<>>
             ELSE LET e == m + 2
                      c2 == IF e <= Len(s) /\ Char(s, e) = ":" THEN 1 ELSE 0
                  IN  IF MatchesPat(s, e + c2, <<"012345", Digits>>)
                      THEN <<e + c2 + 2 - pos, e - pos>>
                      ELSE <<e - pos>>

\* How many whitespace characters start at pos.
RECURSIVE SpaceRun(_, _)
SpaceRun(s, pos) ==
    IF pos <= Len(s) /\ IsSpace(Char(s, pos)) THEN 1 + SpaceRun(s, pos + 1) ELSE 0

\* The lengths a token can match at pos, in the order the regular
\* expression engine tries them.
Alts(s, pos, tok) ==
    IF tok.k = "lit"
    THEN IF pos <= Len(s) /\ LowerChar(Char(s, pos)) = LowerChar(tok.c)
         THEN <<1>> ELSE <<>>
    ELSE IF tok.k = "ws"
    THEN LET r == SpaceRun(s, pos) IN [j \in 1..r |-> r + 1 - j]
    ELSE IF tok.c \in {"a", "b"}
    THEN IF pos + 2 <= Len(s)
            /\ NameIndex(IF tok.c = "a" THEN WeekdayNames ELSE MonthNames,
                         SubSeq(s, pos, pos + 2)) # 0
         THEN <<3>> ELSE <<>>
    ELSE IF tok.c = "z" THEN ZoneAlts(s, pos)
    ELSE LET pats == DirPatterns(tok.c)
             RECURSIVE Pick(_)
             Pick(j) == IF j > Len(pats) THEN <<>>
                        ELSE IF MatchesPat(s, pos, pats[j])
                             THEN <<Len(pats[j])>> \o Pick(j + 1)
                             ELSE Pick(j + 1)
         IN  Pick(1)

\* re.match with backtracking: the first way, in priority order, to match
\* tokens k.. from pos; got lists the text each directive matched.
RECURSIVE MatchFrom(_, _, _, _)
RECURSIVE TryAlts(_, _, _, _, _, _)
MatchFrom(s, pos, toks, k) ==
    IF k > Len(toks) THEN [ok |-> TRUE, end |-> pos, got |-> <<>>]
    ELSE TryAlts(s, pos, toks, k, Alts(s, pos, toks[k]), 1)

TryAlts(s, pos, toks, k, alts, j) ==
    IF j > Len(alts) THEN [ok |-> FALSE, end |-> 0, got |-> <<>>]
    ELSE LET r == MatchFrom(s, pos + alts[j], toks, k + 1)
         IN  IF r.ok
             THEN [ok |-> TRUE, end |-> r.end,
                   got |-> (IF toks[k].k = "dir"
                            THEN <<[c |-> toks[k].c,
                                    txt |-> SubSeq(s, pos, pos + alts[j] - 1)]>>
                            ELSE <<>>) \o r.got]
             ELSE TryAlts(s, pos, toks, k, alts, j + 1)

\* int(txt) of decimal digits, leading spaces allowed.
RECURSIVE StrToIntFrom(_, _, _)
StrToIntFrom(txt, i, acc) ==
    IF i > Len(txt) THEN acc
    ELSE IF Char(txt, i) = " " THEN StrToIntFrom(txt, i + 1, acc)
    ELSE StrToIntFrom(txt, i + 1, 10 * acc + DigitVal(Char(txt, i)))

StrToInt(txt) == StrToIntFrom(txt, 1, 0)

\* str(n) of a natural number.
RECURSIVE IntToStr(_)
IntToStr(n) ==
    IF n < 10 THEN Char(Digits, n + 1)
    ELSE IntToStr(n \div 10) \o Char(Digits, (n % 10) + 1)

IsLeap(y) == (y % 4 = 0 /\ y % 100 # 0) \/ y % 400 = 0

DaysInMonth(y, m) ==
    IF m = 2 THEN (IF IsLeap(y) THEN 29 ELSE 28)
    ELSE IF m \in {4, 6, 9, 11} THEN 30 ELSE 31

\* Is the matched %z text an offset the timezone constructor accepts:
\* colons used consistently, and less than 24 hours.
ZoneOk(z) ==
    \/ z = "Z"
    \/ LET colon1 == Char(z, 4) = ":"
           t == IF colon1 THEN SubSeq(z, 1, 3) \o SubSeq(z, 5, Len(z)) ELSE z
           colon2 == Len(t) > 5 /\ Char(t, 6) = ":"
           u == IF colon1 /\ colon2 THEN SubSeq(t, 1, 5) \o SubSeq(t, 7, Len(t)) ELSE t
           secs == IF Len(u) > 5 THEN SubSeq(u, 6, 7) ELSE "0"
       IN  /\ (colon1 /\ Len(t) > 5) => colon2
           /\ \A j \in 1..Len(secs) : IsDigit(Char(secs, j))
           /\ StrToInt(SubSeq(u, 2, 3)) * 3600 + StrToInt(SubSeq(u, 4, 5)) * 60
                 + StrToInt(secs) < 86400

NoDate == [ok |-> FALSE, year |-> 0, month |-> 0, day |-> 0, hour |-> 0,
           minute |-> 0, second |-> 0]

\* What the directives of a match found: got lists, per directive, the text
\* it matched.
GotHas(got, c) == \E j \in 1..Len(got) : got[j].c = c
GotTxt(got, c) == got[CHOOSE j \in 1..Len(got) : got[j].c = c].txt
GotNum(got, c, default) == IF GotHas(got, c) THEN StrToInt(GotTxt(got, c)) ELSE default
GotMonth(got) ==
    IF GotHas(got, "b") THEN NameIndex(MonthNames, GotTxt(got, "b")) ELSE GotNum(got, "m", 1)

\* The datetime built from the fields, or the ValueError of an impossible one.
MakeDate(got, year, month, day, second) ==
    IF GotHas(got, "z") /\ ~ZoneOk(GotTxt(got, "z")) THEN NoDate
    ELSE IF year < 1 \/ day > DaysInMonth(year, month) \/ second > 59 THEN NoDate
    ELSE [ok |-> TRUE, year |-> year, month |-> month, day |-> day,
          hour |-> GotNum(got, "H", 0), minute |-> GotNum(got, "M", 0),
          second |-> second]

\* The match must cover the whole text ("unconverted data remains").
DateOfMatch(s, r) ==
    IF ~r.ok \/ r.end # Len(s) + 1 THEN NoDate
    ELSE MakeDate(r.got, GotNum(r.got, "Y", 1900), GotMonth(r.got),
                  GotNum(r.got, "d", 1), GotNum(r.got, "S", 0))

\* datetime.strptime(s, fmt): ok = FALSE stands for the ValueError.
Strptime(s, fmt) == DateOfMatch(s, MatchFrom(s, 1, Tokenize(fmt, 1), 1))

Pad2(n) == IF n < 10 THEN "0" \o IntToStr(n) ELSE IntToStr(n)

\* date_obj.strftime('%Y-%m-%d %H:%M') (glibc writes %Y without padding).
StrftimeMinutes(d) ==
    IntToStr(d.year) \o "-" \o Pad2(d.month) \o "-" \o Pad2(d.day) \o " "
        \o Pad2(d.hour) \o ":" \o Pad2(d.minute)

\* date_obj.strftime('%Y-%m-%d %H:%M:%S')
StrftimeSeconds(d) == StrftimeMinutes(d) \o ":" \o Pad2(d.second)

(***************************************************************************)
(* FeedParser.format_date (feed_parser.py 86-109).                         *)
(***************************************************************************)
RECURSIVE FormatDateFrom(_, _, _)
RECURSIVE FormatDateTry(_, _, _, _)
FormatDateFrom(date_str, formats, k) ==
    IF k > Len(formats) THEN date_str
    ELSE FormatDateTry(date_str, formats, k, Strptime(date_str, formats[k]))

\* The body of the loop: return the rendering, or continue after ValueError.
FormatDateTry(date_str, formats, k, date_obj) ==
    IF date_obj.ok THEN StrftimeMinutes(date_obj)
    ELSE FormatDateFrom(date_str, formats, k + 1)

format_date(date_str, formats) == FormatDateFrom(date_str, formats, 1)

(***************************************************************************)
(* Values shared by the adapters.                                          *)
(*                                                                         *)
(* A JSON value is a record with a field t: "dict" (its keys are the       *)
(* record's other fields), "list", "null", or "invalid" for a body that    *)
(* response.json() cannot decode, with exc the class of the exception the  *)
(* installed requests raises for it ("RequestException" from 2.27 on,      *)
(* "ValueError" before).  An HTTP exchange is [net |-> "error"] when       *)
(* requests.get itself raises (a RequestException), else                   *)
(* [net |-> "ok", status |-> code, data |-> JSON value].                   *)
(*                                                                         *)
(* What a call of parse() does is an outcome: raised (an exception left    *)
(* the call), entries (the list returned; when raised, what the local list *)
(* held at that moment, which the caller never sees) and gets (the         *)
(* endpoints it sent a GET to).                                            *)
(***************************************************************************)
FeedEntry(title, content, published, link, source, category) ==
    [title |-> title, content |-> content, published |-> published,
     link |-> link, source |-> source, category |-> category]

NoDateAvailable == "No date available"

\* dict.get(key, default)
Get(d, key, default) == IF key \in DOMAIN d THEN d[key] ELSE default

\* Python truth of a str or None; x or y.
Truthy(x) == x \notin {None, ""}
Or(x, y) == IF Truthy(x) THEN x ELSE y

\* str(x) inside an f-string.
PyStr(x) == IF x = None THEN "None" ELSE x

Returned(entries, gets) == [raised |-> FALSE, entries |-> entries, gets |-> gets]
Raised(entries, gets) == [raised |-> TRUE, entries |-> entries, gets |-> gets]

\* A raise_for_status that lets the client errors pass; what C7 says about
\* failed responses must tell it from RaiseForStatus.
RaiseForServerError(status) == 500 <= status /\ status < 600

\* requests.Response.raise_for_status: HTTPError for 4xx and 5xx.
RaiseForStatus(status) == 400 <= status /\ status < 600

(***************************************************************************)
(* UnifiedNewsParser (unified_parser.py).  self is                         *)
(* [url |-> ..., name |-> ..., api_key |-> ...].                           *)
(***************************************************************************)
\* "newsapi.org" in self.url
RECURSIVE Contains(_, _, _)
Contains(s, sub, i) ==
    IF i + Len(sub) - 1 > Len(s) THEN FALSE
    ELSE SubSeq(s, i, i + Len(sub) - 1) = sub \/ Contains(s, sub, i + 1)

is_newsapi_url(self) == Contains(self.url, "newsapi.org", 1)

\* The body of the loop over data['articles'] (unified_parser.py 98-120).
\* article.get('source', {}).get('name', 'Unknown') raises AttributeError
\* when the article's source is not a dict.
ArticleRaises(article) ==
    "source" \in DOMAIN article /\ article.source.t # "dict"

ArticleEntry(self, article) ==
    LET publishedAt == Get(article, "publishedAt", "")
        date_obj == Strptime(publishedAt, "%Y-%m-%dT%H:%M:%SZ")
        published == IF Truthy(publishedAt)
                     THEN (IF date_obj.ok THEN StrftimeMinutes(date_obj)
                           ELSE NoDateAvailable)
                     ELSE NoDateAvailable
        content == Or(Get(article, "description", None),
                      Or(Get(article, "content", None), "No content available"))
        source == Get(article, "source", [t |-> "dict"])
    IN  FeedEntry(Get(article, "title", "No title"), content, published,
                  Get(article, "url", ""),
                  self.name \o " - " \o PyStr(Get(source, "name", "Unknown")),
                  self.name)

RECURSIVE NewsapiLoop(_, _, _, _, _)
NewsapiLoop(self, articles, i, entries, gets) ==
    IF i > Len(articles) THEN Returned(entries, gets)
    ELSE IF ArticleRaises(articles[i]) THEN Raised(entries, gets)
    ELSE NewsapiLoop(self, articles, i + 1,
                     Append(entries, ArticleEntry(self, articles[i])), gets)

\* UnifiedNewsParser.parse_newsapi (unified_parser.py 60-126) from the GET
\* on (lines 80-126); resp is the HTTP exchange the GET meets.  Only
\* requests.exceptions.RequestException is caught.
fetch_newsapi(self, resp) ==
    LET gets == <<self.url>>
    IN  IF resp.net = "error" THEN Returned(<<>>, gets)
        ELSE IF RaiseForStatus(resp.status) THEN Returned(<<>>, gets)
        ELSE IF resp.data.t = "invalid"
             THEN (IF resp.data.exc = "RequestException"
                   THEN Returned(<<>>, gets) ELSE Raised(<<>>, gets))
        ELSE IF resp.data.t # "dict" THEN Raised(<<>>, gets)
        ELSE IF Get(resp.data, "status", None) # "ok" THEN Returned(<<>>, gets)
        ELSE IF "articles" \notin DOMAIN resp.data THEN Raised(<<>>, gets)
        ELSE NewsapiLoop(self, resp.data.articles, 1, <<>>, gets)

\* A parse_newsapi without the check of the key; what C8 says about a
\* missing key must tell it from parse_newsapi.
parse_newsapi_unguarded(self, resp) == fetch_newsapi(self, resp)

\* unified_parser.py 76-78: without a key, nothing is requested.
parse_newsapi(self, resp) ==
    IF ~Truthy(self.api_key) THEN Returned(<<>>, <<>>)
    ELSE fetch_newsapi(self, resp)

\* re.sub(r'<!\[CDATA\[(.*?)\]\]>', r'\1', s): a match starts at
\* "<![CDATA[" and ends at the first "]]>" after it, provided no newline
\* lies between ('.' does not match one); the wrapper is dropped and what
\* it held is kept.
CdataClose(s, i) ==
    LET ends == {j \in (i + 9)..(Len(s) - 2) :
                    /\ SubSeq(s, j, j + 2) = "]]>"
                    /\ \A k \in (i + 9)..(j - 1) : Char(s, k) # "\n"}
    IN  IF ends = {} THEN 0 ELSE Min(ends)

RECURSIVE UnwrapCdataFrom(_, _)
UnwrapCdataFrom(s, i) ==
    IF i > Len(s) THEN ""
    ELSE IF i + 8 <= Len(s) /\ SubSeq(s, i, i + 8) = "<![CDATA[" /\ CdataClose(s, i) # 0
         THEN SubSeq(s, i + 9, CdataClose(s, i) - 1)
                  \o UnwrapCdataFrom(s, CdataClose(s, i) + 3)
         ELSE Char(s, i) \o UnwrapCdataFrom(s, i + 1)

UnwrapCdata(s) == UnwrapCdataFrom(s, 1)

\* date_formats of parse_rss (unified_parser.py 149-153).
date_formats ==
    <<"%a, %d %b %Y %H:%M:%S %z", "%a, %d %b %Y %H:%M:%S", "%Y-%m-%d %H:%M:%S">>

\* The body of the loop over feed.entries (unified_parser.py 155-189).
\* entry['content'][0] raises IndexError when the content array is empty.
RssEntryRaises(entry) ==
    "content" \in DOMAIN entry /\ Len(entry.content) = 0

RssEntry(self, entry) ==
    LET title == UnwrapCdata(Get(entry, "title", "No title"))
        raw == IF "content" \in DOMAIN entry THEN entry.content[1].value
               ELSE IF "summary" \in DOMAIN entry THEN entry.summary
               ELSE IF "description" \in DOMAIN entry THEN entry.description
               ELSE "No content available"
        content == clean_content(UnwrapCdata(raw))
        date == Get(entry, "published", Get(entry, "updated", ""))
        published == IF Truthy(date) THEN format_date(date, date_formats)
                     ELSE NoDateAvailable
    IN  FeedEntry(Strip(title), content, published, Get(entry, "link", ""),
                  self.name, self.name)

RECURSIVE RssLoop(_, _, _, _, _)
RssLoop(self, items, i, entries, gets) ==
    IF i > Len(items) THEN Returned(entries, gets)
    ELSE IF RssEntryRaises(items[i]) THEN Raised(entries, gets)
    ELSE RssLoop(self, items, i + 1, Append(entries, RssEntry(self, items[i])), gets)

\* UnifiedNewsParser.parse_rss (unified_parser.py 128-191); feed is what
\* feedparser.parse(self.url) returned, [entries |-> the parsed items].
\* Nothing is caught here.
parse_rss(self, feed) ==
    LET gets == <<self.url>>
    IN  IF Len(feed.entries) = 0 THEN Returned(<<>>, gets)
        ELSE RssLoop(self, feed.entries, 1, <<>>, gets)

\* UnifiedNewsParser.parse (unified_parser.py 193-206); upstream is the
\* HTTP exchange or the parsed feed, whichever the URL leads to.
UnifiedNewsParser_parse(self, upstream) ==
    IF is_newsapi_url(self) THEN parse_newsapi(self, upstream)
    ELSE parse_rss(self, upstream)

(***************************************************************************)
(* WeatherParser (weather_parser.py).  A JSON number is                    *)
(* [t |-> "num", v |-> n] (the model's numbers are integers) and JSON null *)
(* is [t |-> "null"]; text fields are strings.                             *)
(***************************************************************************)
Num(n) == [t |-> "num", v |-> n]
Null == [t |-> "null"]
EmptyDict == [t |-> "dict"]

ForecastDays == 5     \* daily[:5]
HourlyLimit == 24     \* weather_json.get("hourly", [])[:24]

\* str(x) of a number or None inside an f-string.
PyFmt(x) ==
    IF x.t = "null" THEN "None"
    ELSE IF x.v < 0 THEN "-" \o IntToStr(0 - x.v) ELSE IntToStr(x.v)

\* Days since 1970-01-01 of a civil date, and back.
DaysFromCivil(y0, m, d) ==
    LET y == IF m <= 2 THEN y0 - 1 ELSE y0
        era == y \div 400
        yoe == y - era * 400
        doy == (153 * (IF m > 2 THEN m - 3 ELSE m + 9) + 2) \div 5 + d - 1
        doe == yoe * 365 + yoe \div 4 - yoe \div 100 + doy
    IN  era * 146097 + doe - 719468

CivilFromDays(days) ==
    LET z == days + 719468
        era == z \div 146097
        doe == z - era * 146097
        yoe == (doe - doe \div 1460 + doe \div 36524 - doe \div 146096) \div 365
        doy == doe - (365 * yoe + yoe \div 4 - yoe \div 100)
        mp == (5 * doy + 2) \div 153
        d == doy - (153 * mp + 2) \div 5 + 1
        m == IF mp < 10 THEN mp + 3 ELSE mp - 9
    IN  [year |-> yoe + era * 400 + (IF m <= 2 THEN 1 ELSE 0), month |-> m, day |-> d]

\* datetime.fromtimestamp(ts) for ts >= 0, the process's zone being UTC.
FromTimestamp(ts) ==
    LET c == CivilFromDays(ts \div 86400)
        r == ts % 86400
    IN  [ok |-> TRUE, year |-> c.year, month |-> c.month, day |-> c.day,
         hour |-> r \div 3600, minute |-> (r % 3600) \div 60, second |-> r % 60]

\* strftime("%Y-%m-%d"), strftime("%H:%M"), strftime("%A")
StrftimeDate(d) == IntToStr(d.year) \o "-" \o Pad2(d.month) \o "-" \o Pad2(d.day)
StrftimeHHMM(d) == Pad2(d.hour) \o ":" \o Pad2(d.minute)

DayNames ==
    <<"Monday", "Tuesday", "Wednesday", "Thursday", "Friday", "Saturday", "Sunday">>

StrftimeDayName(d) == DayNames[((DaysFromCivil(d.year, d.month, d.day) + 3) % 7) + 1]

\* x.get("weather", [{}])[0] raises IndexError on an empty list.
DefaultWeather == <<EmptyDict>>

\* One element of "daily" / of "hourly" makes extract_weather_data raise:
\* fromtimestamp of a non-number, .get on a temp that is not a dict, [0] of
\* an empty weather list.
DayExtractRaises(day) ==
    \/ Get(day, "dt", Num(0)).t # "num"
    \/ Get(day, "temp", EmptyDict).t # "dict"
    \/ Len(Get(day, "weather", DefaultWeather)) = 0

HourExtractRaises(hour) ==
    \/ Get(hour, "dt", Num(0)).t # "num"
    \/ Len(Get(hour, "weather", DefaultWeather)) = 0

\* Does extract_weather_data (weather_parser.py 17-78) raise.
ExtractRaises(weather_json) ==
    IF weather_json.t # "dict" THEN TRUE
    ELSE LET current == Get(weather_json, "current", EmptyDict)
             daily == Get(weather_json, "daily", <<>>)
             hourly == Get(weather_json, "hourly", <<>>)
         IN  IF current.t # "dict" THEN TRUE
             ELSE \/ \E k \in {"dt", "sunrise", "sunset"} : Get(current, k, Num(0)).t # "num"
                  \/ Len(Get(current, "weather", DefaultWeather)) = 0
                  \/ \E i \in 1..Len(daily) : DayExtractRaises(daily[i])
                  \/ \E i \in 1..Len(hourly) : i <= HourlyLimit /\ HourExtractRaises(hourly[i])

ExtractDay(day) ==
    [date |-> StrftimeDate(FromTimestamp(Get(day, "dt", Num(0)).v)),
     summary |-> Get(day, "summary", ""),
     temp_day |-> Get(Get(day, "temp", EmptyDict), "day", Null),
     temp_min |-> Get(Get(day, "temp", EmptyDict), "min", Null),
     temp_max |-> Get(Get(day, "temp", EmptyDict), "max", Null),
     humidity |-> Get(day, "humidity", Null),
     description |-> Get(Get(day, "weather", DefaultWeather)[1], "description", ""),
     main |-> Get(Get(day, "weather", DefaultWeather)[1], "main", ""),
     rain |-> Get(day, "rain", Num(0)),
     snow |-> Get(day, "snow", Num(0)),
     pop |-> Get(day, "pop", Num(0))]

\* What extract_weather_data returns when it does not raise (the location
\* and the hourly list, which nothing reads afterwards, are left out).
extract_weather_data(weather_json) ==
    LET current == Get(weather_json, "current", EmptyDict)
        daily == Get(weather_json, "daily", <<>>)
    IN  [current |->
            [timestamp |-> StrftimeSeconds(FromTimestamp(Get(current, "dt", Num(0)).v)),
             sunrise |-> StrftimeHHMM(FromTimestamp(Get(current, "sunrise", Num(0)).v)),
             sunset |-> StrftimeHHMM(FromTimestamp(Get(current, "sunset", Num(0)).v)),
             temp |-> Get(current, "temp", Null),
             feels_like |-> Get(current, "feels_like", Null),
             pressure |-> Get(current, "pressure", Null),
             humidity |-> Get(current, "humidity", Null),
             wind_speed |-> Get(current, "wind_speed", Null),
             wind_deg |-> Get(current, "wind_deg", Null),
             description |-> Get(Get(current, "weather", DefaultWeather)[1], "description", ""),
             main |-> Get(Get(current, "weather", DefaultWeather)[1], "main", "")],
         daily_forecast |-> [i \in 1..Len(daily) |-> ExtractDay(daily[i])]]

\* WeatherParser.format_current_weather (weather_parser.py 80-90)
format_current_weather(current) ==
    "\n        <div class=\"weather-current\">\n            <p><strong>Current Conditions:</strong> "
    \o current.main \o " - " \o current.description
    \o "</p>\n            <p>Temperature: " \o PyFmt(current.temp)
    \o "°F (Feels like: " \o PyFmt(current.feels_like)
    \o "°F)</p>\n            <p>Wind: " \o PyFmt(current.wind_speed)
    \o " mph</p>\n            <p>Humidity: " \o PyFmt(current.humidity)
    \o "%</p>\n            <p>Sunrise: " \o current.sunrise
    \o ", Sunset: " \o current.sunset
    \o "</p>\n        </div>\n        "

\* sep.join(parts)
RECURSIVE Join(_, _)
Join(sep, parts) ==
    IF Len(parts) = 0 THEN ""
    ELSE IF Len(parts) = 1 THEN parts[1]
    ELSE parts[1] \o sep \o Join(sep, Tail(parts))

\* day['pop'] > 0, day['rain'] > 0 or day['snow'] > 0 raises TypeError on None.
DayFormatRaises(day) ==
    day.pop.t # "num" \/ day.rain.t # "num" \/ day.snow.t # "num"

DayHtml(day) ==
    LET day_name == StrftimeDayName(Strptime(day.date, "%Y-%m-%d"))
        precip_info ==
            (IF day.pop.v > 0
             THEN <<"Chance of precipitation: " \o IntToStr(day.pop.v * 100) \o "%">>
             ELSE <<>>)
            \o (IF day.rain.v > 0 THEN <<"Rain: " \o PyFmt(day.rain) \o "mm">> ELSE <<>>)
            \o (IF day.snow.v > 0 THEN <<"Snow: " \o PyFmt(day.snow) \o "mm">> ELSE <<>>)
    IN  "\n            <div class=\"weather-day\">\n                <h3>" \o day_name
        \o "</h3>\n                <p>" \o day.main \o ": " \o day.description
        \o "</p>\n                <p>High: " \o PyFmt(day.temp_max)
        \o "°F, Low: " \o PyFmt(day.temp_min)
        \o "°F</p>\n                "
        \o (IF Len(precip_info) > 0 THEN "<p>" \o Join(", ", precip_info) \o "</p>" ELSE "")
        \o "\n            </div>\n            "

\* daily[:5]
FirstDays(daily) ==
    SubSeq(daily, 1, IF Len(daily) < ForecastDays THEN Len(daily) ELSE ForecastDays)

\* WeatherParser.format_daily_forecast (weather_parser.py 92-115): does it
\* raise, and what it returns when it does not.
FormatDailyRaises(daily) ==
    \E i \in 1..Len(FirstDays(daily)) : DayFormatRaises(daily[i])

format_daily_forecast(daily) ==
    Join("\n", [i \in 1..Len(FirstDays(daily)) |-> DayHtml(daily[i])])

\* WeatherParser.parse (weather_parser.py 117-160); resp is the HTTP
\* exchange the GET meets and now is datetime.now().  Every Exception is
\* caught and the list built so far is returned.
WeatherParser_parse(self, resp, now) ==
    LET gets == <<self.base_url>>
    IN  IF resp.net = "error" THEN Returned(<<>>, gets)
        ELSE IF RaiseForStatus(resp.status) THEN Returned(<<>>, gets)
        ELSE IF resp.data.t = "invalid" THEN Returned(<<>>, gets)
        ELSE IF ExtractRaises(resp.data) THEN Returned(<<>>, gets)
        ELSE LET weather_data == extract_weather_data(resp.data)
                 current == weather_data.current
                 first == FeedEntry("Current Weather Conditions",
                                    format_current_weather(current),
                                    current.timestamp, None, "OpenWeather", "Weather")
             IN  IF FormatDailyRaises(weather_data.daily_forecast)
                 THEN Returned(<<first>>, gets)
                 ELSE Returned(
                          <<first,
                            FeedEntry("5-Day Weather Forecast",
                                      format_daily_forecast(weather_data.daily_forecast),
                                      StrftimeSeconds(FromTimestamp(now)),
                                      None, "OpenWeather", "Weather")>>,
                          gets)

(***************************************************************************)
(* HTMLGenerator (html_generator.py).  The documents are modelled as the   *)
(* texts the f-strings of the source produce, character for character,     *)
(* with two stand-ins: the arrows of the link texts are written as their   *)
(* numeric character references, and a datetime value is written           *)
(* <datetime YYYY-MM-DD HH:MM:SS>, a text no field of an entry is.         *)
(***************************************************************************)
\* The parameters save_html declares besides self (html_generator.py 437).
SaveHtmlParams == {"entries", "title", "weather_entries"}

\* self.category_order (html_generator.py 39).
category_order == <<"Weather", "US News">>

\* The length generate_entry_html cuts a content at (html_generator.py 124).
PreviewLength == 500

\* U+2192 and U+2190 in "Read more" and "Back to Dashboard".
RightArrow == "&#8594;"
LeftArrow == "&#8592;"

\* self.css (html_generator.py 41-104).
Css ==
    "\n"
    \o "            body {\n"
    \o "                font-family: Arial, sans-serif;\n"
    \o "                max-width: 800px;\n"
    \o "                margin: 0 auto;\n"
    \o "                padding: 20px;\n"
    \o "                background-color: #f5f5f5;\n"
    \o "            }\n"
    \o "            .section {\n"
    \o "                margin-bottom: 40px;\n"
    \o "            }\n"
    \o "            .section-title {\n"
    \o "                text-align: center;\n"
    \o "                color: #333;\n"
    \o "                padding: 20px;\n"
    \o "                background-color: #fff;\n"
    \o "                border-radius: 5px;\n"
    \o "                margin-bottom: 20px;\n"
    \o "                box-shadow: 0 2px 5px rgba(0,0,0,0.1);\n"
    \o "            }\n"
    \o "            .entry {\n"
    \o "                background-color: #fff;\n"
    \o "                padding: 20px;\n"
    \o "                margin-bottom: 20px;\n"
    \o "                border-radius: 5px;\n"
    \o "                box-shadow: 0 2px 5px rgba(0,0,0,0.1);\n"
    \o "            }\n"
    \o "            .entry-title {\n"
    \o "                color: #2c3e50;\n"
    \o "                margin-top: 0;\n"
    \o "            }\n"
    \o "            .entry-meta {\n"
    \o "                color: #7f8c8d;\n"
    \o "                font-size: 0.9em;\n"
    \o "                margin-bottom: 10px;\n"
    \o "            }\n"
    \o "            .entry-content {\n"
    \o "                color: #34495e;\n"
    \o "                line-height: 1.6;\n"
    \o "            }\n"
    \o "            .entry-link {\n"
    \o "                display: inline-block;\n"
    \o "                margin-top: 10px;\n"
    \o "                color: #3498db;\n"
    \o "                text-decoration: none;\n"
    \o "            }\n"
    \o "            .entry-link:hover {\n"
    \o "                text-decoration: underline;\n"
    \o "            }\n"
    \o "            .timestamp {\n"
    \o "                text-align: center;\n"
    \o "                color: #95a5a6;\n"
    \o "                font-size: 0.8em;\n"
    \o "                margin-top: 20px;\n"
    \o "            }\n"
    \o "            .weather-section {\n"
    \o "                background-color: #fff;\n"
    \o "                padding: 20px;\n"
    \o "                border-radius: 5px;\n"
    \o "                margin-bottom: 40px;\n"
    \o "                box-shadow: 0 2px 5px rgba(0,0,0,0.1);\n"
    \o "            }\n"
    \o "        "

\* A datetime object, given as the text str() makes of it.
Datetime(text) == "<datetime " \o text \o ">"
IsDatetime(x) == Len(x) > 10 /\ SubSeq(x, 1, 10) = "<datetime "
DatetimeOf(x) == Strptime(SubSeq(x, 11, Len(x) - 1), "%Y-%m-%d %H:%M:%S")

\* {x} in an f-string: str(x) of None, of a datetime or of a str.
FStr(x) ==
    IF x = None THEN "None"
    ELSE IF IsDatetime(x) THEN SubSeq(x, 11, Len(x) - 1)
    ELSE x

FullMonthNames ==
    <<"January", "February", "March", "April", "May", "June", "July", "August",
      "September", "October", "November", "December">>

\* strftime('%B %d, %Y %I:%M %p')
StrftimeLong(d) ==
    FullMonthNames[d.month] \o " " \o Pad2(d.day) \o ", " \o IntToStr(d.year) \o " "
        \o Pad2(IF d.hour % 12 = 0 THEN 12 ELSE d.hour % 12) \o ":" \o Pad2(d.minute)
        \o (IF d.hour < 12 THEN " AM" ELSE " PM")

\* A preview that cuts nothing; what C20 says about long contents must
\* tell it from content_display.
ContentInFull(content) == content

\* content[:500] + "..." if len(content) > 500 else content
\* (html_generator.py 124).
content_display(content) ==
    IF Len(content) > PreviewLength THEN SubSeq(content, 1, PreviewLength) \o "..."
    ELSE content

\* The "Read more" anchor, only for a link that is not None and not empty
\* (html_generator.py 127).
link_html(link) ==
    IF Truthy(link)
    THEN "<a class=\"entry-link\" href=\"" \o FStr(link)
             \o "\" target=\"_blank\">Read more " \o RightArrow \o "</a>"
    ELSE ""

\* HTMLGenerator.generate_entry_html (html_generator.py 106-140).
generate_entry_html(entry) ==
    "\n"
    \o "        <div class=\"entry\">\n"
    \o "            <h2 class=\"entry-title\">"
        \o FStr(Or(entry.title, "No Title"))
        \o "</h2>\n"
           \o "            <div class=\"entry-meta\">\n"
           \o "                "
        \o FStr(Or(entry.published, "No date")) \o " | Source: "
        \o FStr(Or(entry.source, "Unknown Source"))
        \o "\n"
           \o "            </div>\n"
           \o "            <div class=\"entry-content\">\n"
           \o "                "
        \o content_display(FStr(Or(entry.content, "No content available")))
        \o "\n"
           \o "            </div>\n"
           \o "            "
        \o link_html(entry.link)
        \o "\n"
           \o "        </div>\n"
           \o "        "

\* ''.join(self.generate_entry_html(entry) for entry in ...)
RECURSIVE JoinEntryHtml(_)
JoinEntryHtml(entries) ==
    IF Len(entries) = 0 THEN ""
    ELSE generate_entry_html(entries[1]) \o JoinEntryHtml(Tail(entries))

\* A dict of lists, as the list of its items in insertion order:
\* d[key].append(entry), after d[key] = [] for a key that is not yet there.
AppendTo(groups, key, entry) ==
    IF \E i \in 1..Len(groups) : groups[i].key = key
    THEN [i \in 1..Len(groups) |->
              IF groups[i].key = key
              THEN [key |-> key, entries |-> Append(groups[i].entries, entry)]
              ELSE groups[i]]
    ELSE Append(groups, [key |-> key, entries |-> <<entry>>])

\* The loop that fills categories (html_generator.py 159-165).
RECURSIVE GroupByCategory(_, _, _)
GroupByCategory(entries, i, categories) ==
    IF i > Len(entries) THEN categories
    ELSE GroupByCategory(entries, i + 1,
             AppendTo(categories, Or(entries[i].category, "Uncategorized"), entries[i]))

\* The loop over self.category_order (html_generator.py 170-180): the
\* categories of the list that are there, in the list's order.
RECURSIVE PrioritySections(_, _)
PrioritySections(categories, k) ==
    IF k > Len(category_order) THEN <<>>
    ELSE SelectSeq(categories, LAMBDA g : g.key = category_order[k])
             \o PrioritySections(categories, k + 1)

\* What the del statements (html_generator.py 180) leave in categories.
RemainingSections(categories) ==
    SelectSeq(categories, LAMBDA g : \A k \in 1..Len(category_order) : g.key # category_order[k])

\* The sections in first-seen order, the priority list ignored; what C13
\* says about the order must tell it from Sections.
SectionsAsSeen(entries) == GroupByCategory(entries, 1, <<>>)

\* The sections in the order their text is appended to sections_html.
Sections(entries) ==
    PrioritySections(GroupByCategory(entries, 1, <<>>), 1)
        \o RemainingSections(GroupByCategory(entries, 1, <<>>))

\* The f-string of html_generator.py 172-178.
RECURSIVE PrioritySectionsHtml(_)
PrioritySectionsHtml(groups) ==
    IF Len(groups) = 0 THEN ""
    ELSE "\n"
         \o "                <div class=\"section\">\n"
         \o "                    <h1 class=\"section-title\">"
             \o groups[1].key \o "</h1>\n"
                                 \o "                    "
             \o JoinEntryHtml(groups[1].entries)
             \o "\n"
                \o "                </div>\n"
                \o "                "
             \o PrioritySectionsHtml(Tail(groups))

\* The f-string of html_generator.py 183-189.
RECURSIVE RemainingSectionsHtml(_)
RemainingSectionsHtml(groups) ==
    IF Len(groups) = 0 THEN ""
    ELSE "\n"
         \o "            <div class=\"section\">\n"
         \o "                <h1 class=\"section-title\">"
             \o groups[1].key \o "</h1>\n"
                                 \o "                "
             \o JoinEntryHtml(groups[1].entries)
             \o "\n"
                \o "            </div>\n"
                \o "            "
             \o RemainingSectionsHtml(Tail(groups))

\* The document around sections_html (html_generator.py 191-206).
Document(title, sections_html, now) ==
    "\n"
    \o "        <!DOCTYPE html>\n"
    \o "        <html>\n"
    \o "        <head>\n"
    \o "            <title>"
        \o FStr(title) \o "</title>\n"
                          \o "            <meta charset=\"utf-8\">\n"
                          \o "            <style>"
        \o Css \o "</style>\n"
                  \o "        </head>\n"
                  \o "        <body>\n"
                  \o "            "
        \o sections_html
        \o "\n"
           \o "            <div class=\"timestamp\">\n"
           \o "                Generated on "
        \o StrftimeSeconds(FromTimestamp(now))
        \o "\n"
           \o "            </div>\n"
           \o "        </body>\n"
           \o "        </html>\n"
           \o "        "

\* HTMLGenerator.generate_html (html_generator.py 142-206), called at the
\* time now.
generate_html(entries, title, now) ==
    Document(title,
             PrioritySectionsHtml(PrioritySections(GroupByCategory(entries, 1, <<>>), 1))
                 \o RemainingSectionsHtml(RemainingSections(GroupByCategory(entries, 1, <<>>))),
             now)

\* The head of a per-source page up to its title, and from its title to
\* its heading (html_generator.py 210-296).
FeedPageOpen ==
    "\n"
    \o "        <!DOCTYPE html>\n"
    \o "        <html lang=\"en\">\n"
    \o "        <head>\n"
    \o "            <meta charset=\"UTF-8\">\n"
    \o "            <meta name=\"viewport\" content=\"width=device-width, initial-scale=1.0\">\n"
    \o "            <title>"

FeedPageStyle ==
    "</title>\n"
    \o "            <style>\n"
    \o "                body {\n"
    \o "                    font-family: -apple-system, BlinkMacSystemFont, \"Segoe UI\", Roboto, \"Helvetica Neue\", Arial, sans-serif;\n"
    \o "                    line-height: 1.6;\n"
    \o "                    margin: 0;\n"
    \o "                    padding: 20px;\n"
    \o "                    background: #f5f5f5;\n"
    \o "                }\n"
    \o "                .container {\n"
    \o "                    max-width: 800px;\n"
    \o "                    margin: 0 auto;\n"
    \o "                    background: white;\n"
    \o "                    padding: 20px;\n"
    \o "                    border-radius: 8px;\n"
    \o "                    box-shadow: 0 2px 4px rgba(0,0,0,0.1);\n"
    \o "                }\n"
    \o "                h1 {\n"
    \o "                    color: #333;\n"
    \o "                    border-bottom: 2px solid #eee;\n"
    \o "                    padding-bottom: 10px;\n"
    \o "                    margin-bottom: 20px;\n"
    \o "                }\n"
    \o "                .entry {\n"
    \o "                    margin-bottom: 20px;\n"
    \o "                    padding-bottom: 20px;\n"
    \o "                    border-bottom: 1px solid #eee;\n"
    \o "                }\n"
    \o "                .entry:last-child {\n"
    \o "                    border-bottom: none;\n"
    \o "                }\n"
    \o "                .entry h2 {\n"
    \o "                    margin: 0 0 10px 0;\n"
    \o "                    color: #2c3e50;\n"
    \o "                }\n"
    \o "                .entry h2 a {\n"
    \o "                    color: #2c3e50;\n"
    \o "                    text-decoration: none;\n"
    \o "                }\n"
    \o "                .entry h2 a:hover {\n"
    \o "                    color: #3498db;\n"
    \o "                }\n"
    \o "                .entry .date {\n"
    \o "                    color: #7f8c8d;\n"
    \o "                    font-size: 0.9em;\n"
    \o "                    margin-bottom: 10px;\n"
    \o "                }\n"
    \o "                .entry .content {\n"
    \o "                    color: #444;\n"
    \o "                }\n"
    \o "                .entry .content img {\n"
    \o "                    max-width: 100%;\n"
    \o "                    height: auto;\n"
    \o "                    border-radius: 4px;\n"
    \o "                    margin: 10px 0;\n"
    \o "                }\n"
    \o "                .read-more {\n"
    \o "                    display: inline-block;\n"
    \o "                    margin-top: 10px;\n"
    \o "                    color: #3498db;\n"
    \o "                    text-decoration: none;\n"
    \o "                    font-weight: 500;\n"
    \o "                }\n"
    \o "                .read-more:hover {\n"
    \o "                    text-decoration: underline;\n"
    \o "                }\n"
    \o "                .back-link {\n"
    \o "                    display: inline-block;\n"
    \o "                    margin-bottom: 20px;\n"
    \o "                    color: #3498db;\n"
    \o "                    text-decoration: none;\n"
    \o "                }\n"
    \o "                .back-link:hover {\n"
    \o "                    text-decoration: underline;\n"
    \o "                }\n"
    \o "            </style>\n"
    \o "        </head>\n"
    \o "        <body>\n"
    \o "            <div class=\"container\">\n"
    \o "                <a href=\"index.html\" class=\"back-link\">" \o LeftArrow \o " Back to Dashboard</a>\n"
    \o "                <h1>"

\* entry.published.strftime (html_generator.py 303) is an AttributeError for
\* a published value that is a str or None.
FeedEntryRaises(entry) == ~IsDatetime(entry.published)

\* The f-string of the loop of _generate_feed_html (html_generator.py
\* 299-307): the link, the title and the content as they are, and a "Read
\* more" anchor for every entry.
FeedEntryHtml(entry) ==
    "\n"
    \o "                <div class=\"entry\">\n"
    \o "                    <h2><a href=\""
        \o FStr(entry.link) \o "\" target=\"_blank\">" \o FStr(entry.title)
        \o "</a></h2>\n"
           \o "                    <div class=\"date\">"
        \o StrftimeLong(DatetimeOf(entry.published))
        \o "</div>\n"
           \o "                    <div class=\"content\">"
        \o FStr(entry.content)
        \o "</div>\n"
           \o "                    <a href=\""
        \o FStr(entry.link)
        \o "\" class=\"read-more\" target=\"_blank\">Read more " \o RightArrow \o "</a>\n"
           \o "                </div>\n"
           \o "            "

RECURSIVE JoinFeedEntryHtml(_)
JoinFeedEntryHtml(entries) ==
    IF Len(entries) = 0 THEN ""
    ELSE FeedEntryHtml(entries[1]) \o JoinFeedEntryHtml(Tail(entries))

\* HTMLGenerator._generate_feed_html (html_generator.py 208-314): the page,
\* or raised when an entry makes the loop raise.
_generate_feed_html(entries, title, source_name) ==
    IF \E i \in 1..Len(entries) : FeedEntryRaises(entries[i])
    THEN [raised |-> TRUE, html |-> None]
    ELSE [raised |-> FALSE,
          html |-> FeedPageOpen \o FStr(title) \o " - " \o FStr(source_name)
                       \o FeedPageStyle \o FStr(title) \o " - " \o FStr(source_name)
                       \o "</h1>\n"
                          \o "        "
                       \o JoinFeedEntryHtml(entries)
                       \o "\n"
                          \o "            </div>\n"
                          \o "        </body>\n"
                          \o "        </html>\n"
                          \o "        "]

\* The head of index.html (html_generator.py 318-396).
IndexOpen ==
    "\n"
    \o "        <!DOCTYPE html>\n"
    \o "        <html lang=\"en\">\n"
    \o "        <head>\n"
    \o "            <meta charset=\"UTF-8\">\n"
    \o "            <meta name=\"viewport\" content=\"width=device-width, initial-scale=1.0\">\n"
    \o "            <title>News Dashboard</title>\n"
    \o "            <style>\n"
    \o "                body {\n"
    \o "                    font-family: -apple-system, BlinkMacSystemFont, \"Segoe UI\", Roboto, \"Helvetica Neue\", Arial, sans-serif;\n"
    \o "                    line-height: 1.6;\n"
    \o "                    margin: 0;\n"
    \o "                    padding: 20px;\n"
    \o "                    background: #f5f5f5;\n"
    \o "                }\n"
    \o "                .container {\n"
    \o "                    max-width: 800px;\n"
    \o "                    margin: 0 auto;\n"
    \o "                    background: white;\n"
    \o "                    padding: 20px;\n"
    \o "                    border-radius: 8px;\n"
    \o "                    box-shadow: 0 2px 4px rgba(0,0,0,0.1);\n"
    \o "                }\n"
    \o "                h1 {\n"
    \o "                    color: #333;\n"
    \o "                    border-bottom: 2px solid #eee;\n"
    \o "                    padding-bottom: 10px;\n"
    \o "                    margin-bottom: 20px;\n"
    \o "                }\n"
    \o "                .weather-section {\n"
    \o "                    margin-bottom: 30px;\n"
    \o "                    padding: 20px;\n"
    \o "                    background: #f8f9fa;\n"
    \o "                    border-radius: 8px;\n"
    \o "                }\n"
    \o "                .weather-section h2 {\n"
    \o "                    color: #2c3e50;\n"
    \o "                    margin-top: 0;\n"
    \o "                }\n"
    \o "                .feed-links {\n"
    \o "                    display: grid;\n"
    \o "                    grid-template-columns: repeat(auto-fit, minmax(250px, 1fr));\n"
    \o "                    gap: 20px;\n"
    \o "                    margin-top: 30px;\n"
    \o "                }\n"
    \o "                .feed-link {\n"
    \o "                    padding: 15px;\n"
    \o "                    background: #f8f9fa;\n"
    \o "                    border-radius: 8px;\n"
    \o "                    text-decoration: none;\n"
    \o "                    color: #2c3e50;\n"
    \o "                    transition: all 0.3s ease;\n"
    \o "                }\n"
    \o "                .feed-link:hover {\n"
    \o "                    background: #e9ecef;\n"
    \o "                    transform: translateY(-2px);\n"
    \o "                }\n"
    \o "                .feed-link h3 {\n"
    \o "                    margin: 0 0 10px 0;\n"
    \o "                    color: #2c3e50;\n"
    \o "                }\n"
    \o "                .feed-link p {\n"
    \o "                    margin: 0;\n"
    \o "                    color: #6c757d;\n"
    \o "                    font-size: 0.9em;\n"
    \o "                }\n"
    \o "                .timestamp {\n"
    \o "                    text-align: center;\n"
    \o "                    color: #6c757d;\n"
    \o "                    font-size: 0.9em;\n"
    \o "                    margin-top: 30px;\n"
    \o "                }\n"
    \o "            </style>\n"
    \o "        </head>\n"
    \o "        <body>\n"
    \o "            <div class=\"container\">\n"
    \o "                <h1>News Dashboard</h1>\n"
    \o "        "

\* The weather section of index.html (html_generator.py 398-410).
RECURSIVE JoinWeatherHtml(_)
JoinWeatherHtml(weather_entries) ==
    IF Len(weather_entries) = 0 THEN ""
    ELSE "\n"
         \o "                    <div class=\"entry\">\n"
         \o "                        <h3>"
             \o FStr(weather_entries[1].title)
             \o "</h3>\n"
                \o "                        <div class=\"content\">"
             \o FStr(weather_entries[1].content)
             \o "</div>\n"
                \o "                    </div>\n"
                \o "                "
             \o JoinWeatherHtml(Tail(weather_entries))

WeatherSectionHtml(weather_entries) ==
    IF Len(weather_entries) = 0 THEN ""
    ELSE "\n"
         \o "                <div class=\"weather-section\">\n"
         \o "                    <h2>Weather</h2>\n"
         \o "            "
             \o JoinWeatherHtml(weather_entries) \o "</div>"

\* The links of index.html, one per element of feed_links
\* (html_generator.py 417-423).
RECURSIVE JoinFeedLinks(_)
JoinFeedLinks(feed_links) ==
    IF Len(feed_links) = 0 THEN ""
    ELSE "\n"
         \o "                    <a href=\"" \o feed_links[1][2]
             \o "\" class=\"feed-link\">\n"
                \o "                        <h3>"
             \o feed_links[1][1]
             \o "</h3>\n"
                \o "                        <p>View latest news from " \o feed_links[1][1]
             \o "</p>\n"
                \o "                    </a>\n"
                \o "            "
             \o JoinFeedLinks(Tail(feed_links))

\* HTMLGenerator._generate_index_html (html_generator.py 316-435), called
\* at the time now.
_generate_index_html(weather_entries, feed_links, now) ==
    IndexOpen \o WeatherSectionHtml(weather_entries)
        \o "\n"
           \o "                <h2>News Sources</h2>\n"
           \o "                <div class=\"feed-links\">\n"
           \o "        "
        \o JoinFeedLinks(feed_links) \o "</div>"
        \o "\n"
           \o "                <div class=\"timestamp\">\n"
           \o "                    Last updated: "
        \o StrftimeLong(FromTimestamp(now))
        \o "\n"
           \o "                </div>\n"
           \o "            </div>\n"
           \o "        </body>\n"
           \o "        </html>\n"
           \o "        "

\* The loop that fills entries_by_source (html_generator.py 449-454).
RECURSIVE GroupBySource(_, _, _)
GroupBySource(entries, i, entries_by_source) ==
    IF i > Len(entries) THEN entries_by_source
    ELSE GroupBySource(entries, i + 1,
             AppendTo(entries_by_source, entries[i].source, entries[i]))

\* str.replace(old, new) for an old of one character.
RECURSIVE Replace(_, _, _)
Replace(s, old, new) ==
    IF Len(s) = 0 THEN ""
    ELSE (IF Char(s, 1) = old THEN new ELSE Char(s, 1))
             \o Replace(SubSeq(s, 2, Len(s)), old, new)

\* A file name that keeps the case of the source; what C14 says about the
\* names must tell it from FileName.
FileNameKeepingCase(source) == Replace(source, " ", "_") \o ".html"

\* f"{source.lower().replace(' ', '_')}.html" (html_generator.py 459).
FileName(source) == Replace(Lower(source), " ", "_") \o ".html"

\* The written file: its name under output_dir and its text.
Write(name, text) == [name |-> name, text |-> text]

\* The loop over entries_by_source (html_generator.py 457-467): a source
\* that is None has no lower() (AttributeError), and a page that cannot be
\* generated is not written; the files written before stay.
RECURSIVE WritePages(_, _, _, _, _)
WritePages(groups, i, title, feed_links, writes) ==
    IF i > Len(groups)
    THEN [raised |-> FALSE, feed_links |-> feed_links, writes |-> writes]
    ELSE IF groups[i].key = None
    THEN [raised |-> TRUE, feed_links |-> feed_links, writes |-> writes]
    ELSE IF _generate_feed_html(groups[i].entries, title, groups[i].key).raised
    THEN [raised |-> TRUE,
          feed_links |-> Append(feed_links, <<groups[i].key, FileName(groups[i].key)>>),
          writes |-> writes]
    ELSE WritePages(groups, i + 1, title,
             Append(feed_links, <<groups[i].key, FileName(groups[i].key)>>),
             Append(writes,
                    Write(FileName(groups[i].key),
                          _generate_feed_html(groups[i].entries, title, groups[i].key).html)))

\* index.html after the pages (html_generator.py 469-475).
WriteIndex(pages, weather_entries, now) ==
    IF pages.raised THEN [raised |-> TRUE, writes |-> pages.writes, path |-> None]
    ELSE [raised |-> FALSE,
          writes |-> Append(pages.writes,
                            Write("index.html",
                                  _generate_index_html(weather_entries, pages.feed_links, now))),
          path |-> "index.html"]

\* HTMLGenerator.save_html (html_generator.py 437-475), called at the time
\* now: the files it wrote, in the order it wrote them, and the path it
\* returned (None when it raised).  weather_entries is a list (the default
\* None is turned into the empty list by line 470).
save_html(entries, title, weather_entries, now) ==
    WriteIndex(WritePages(GroupBySource(entries, 1, <<>>), 1, title, <<>>, <<>>),
               weather_entries, now)

(***************************************************************************)
(* main (main.py 35-112).                                                  *)
(***************************************************************************)
news_sources ==
    <<[url |-> "https://www.autosport.com/rss/feed/f1", name |-> "Autosport F1"],
      [url |-> "https://edm.com/.rss/full/", name |-> "EDM News"],
      [url |-> "https://www.autosport.com/rss/feed/wrc", name |-> "WRC News"],
      [url |-> "https://newsapi.org/v2/top-headlines", name |-> "US News"]>>

UnifiedNewsParser(url, name, api_key) ==
    [cls |-> "UnifiedNewsParser", url |-> url, name |-> name, api_key |-> api_key]

WeatherParser(api_key) ==
    [cls |-> "WeatherParser", name |-> "Weather Forecast", api_key |-> api_key,
     base_url |-> "https://api.openweathermap.org/data/3.0/onecall"]

\* The parsers main builds (main.py 73-89) from the two keys.
RECURSIVE NewsParsers(_, _)
NewsParsers(i, key) ==
    IF i > Len(news_sources) THEN <<>>
    ELSE LET src == news_sources[i]
             newsapi == Contains(src.url, "newsapi.org", 1)
         IN  IF newsapi /\ ~Truthy(key) THEN NewsParsers(i + 1, key)
             ELSE <<UnifiedNewsParser(src.url, src.name, IF newsapi THEN key ELSE None)>>
                      \o NewsParsers(i + 1, key)

BuildParsers(news_key, weather_key) ==
    NewsParsers(1, news_key)
        \o (IF Truthy(weather_key) THEN <<WeatherParser(weather_key)>> ELSE <<>>)

\* parser.parse(), whichever class the parser has.
Parse(parser, upstream, now) ==
    IF parser.cls = "WeatherParser" THEN WeatherParser_parse(parser, upstream, now)
    ELSE UnifiedNewsParser_parse(parser, upstream)

\* A loop that a raising parser empties; what C1 says about the other
\* parsers' entries must tell it from Extend.
ExtendOrLoseAll(entries, outcome) ==
    IF outcome.raised THEN <<>> ELSE entries \o outcome.entries

\* One turn of the collection loop (main.py 93-99): the entries are
\* appended only when parse() returned.
Extend(entries, outcome) ==
    IF outcome.raised THEN entries ELSE entries \o outcome.entries

\* all_entries.sort(key=lambda x: x.published, reverse=True): descending by
\* str comparison, and stable (list.sort keeps the original order of equal
\* keys also with reverse=True).  InsertDesc puts e behind every element whose
\* key is not smaller.
RECURSIVE InsertDesc(_, _)
InsertDesc(sorted, e) ==
    IF Len(sorted) = 0 THEN <<e>>
    ELSE IF StrLess(sorted[1].published, e.published) THEN <<e>> \o sorted
    ELSE <<sorted[1]>> \o InsertDesc(Tail(sorted), e)

RECURSIVE SortFrom(_, _, _)
SortFrom(entries, i, sorted) ==
    IF i > Len(entries) THEN sorted
    ELSE SortFrom(entries, i + 1, InsertDesc(sorted, entries[i]))

\* Two other sorts.  The first sorts ascending (stable) and reverses, so
\* that equal keys come out in reverse order; what C4 says about ties must
\* tell it from SortByPublishedDesc.  The second sorts ascending; what C5
\* says about the place of the sentinel must tell it from
\* SortByPublishedDesc.
RECURSIVE InsertAsc(_, _)
InsertAsc(sorted, e) ==
    IF Len(sorted) = 0 THEN <<e>>
    ELSE IF StrLess(e.published, sorted[1].published) THEN <<e>> \o sorted
    ELSE <<sorted[1]>> \o InsertAsc(Tail(sorted), e)

RECURSIVE SortAscFrom(_, _, _)
SortAscFrom(entries, i, sorted) ==
    IF i > Len(entries) THEN sorted
    ELSE SortAscFrom(entries, i + 1, InsertAsc(sorted, entries[i]))

SortByPublishedAsc(entries) == SortAscFrom(entries, 1, <<>>)

SortAscThenReverse(entries) ==
    [i \in 1..Len(entries) |-> SortByPublishedAsc(entries)[Len(entries) + 1 - i]]

\* A sort that leaves the first entry out; what C16 says about the merged
\* list must tell it from SortByPublishedDesc.
SortWithoutFirst(entries) == SortFrom(entries, 2, <<>>)

SortByPublishedDesc(entries) == SortFrom(entries, 1, <<>>)

\* The keyword arguments main passes to save_html (main.py 106-110).
MainSaveHtmlKeywords == {"entries", "title", "filename"}

(***************************************************************************)
(* The state before anything runs.                                         *)
(***************************************************************************)
Init ==
    /\ pc = "idle"
    /\ news_api_key = None
    /\ weather_api_key = None
    /\ parsers = <<>>
    /\ idx = 0
    /\ all_entries = <<>>
    /\ log = <<>>
    /\ requests = <<>>
    /\ files = {}
    /\ output_file = None
    /\ arg = None
    /\ ret = None

(***************************************************************************)
(* The content normalizer called on its own: clean_content on every text   *)
(* up to MaxCleanLen characters of CleanAlphabet and on CleanExamples,     *)
(* format_date on DateInputs with every candidate list of up to MaxFormats *)
(* formats of FormatPool.                                                  *)
(***************************************************************************)
CleanAlphabet == {"<", ">", "&", ";", "L", "T", " "}

CleanExamples ==
    {"<p>A &amp; B</p>", "&lt;b&gt;x", "&amp;lt;", "&LT;b&GT;", "<b>bold</b> text",
     "  a \n\t b  ", "<<b>>", "<>a>", "&amp;amp;", "<![CDATA[x]]>", "&ltb"}

CleanInputs == StringsUpTo(CleanAlphabet, MaxCleanLen) \cup CleanExamples

\* The formats the adapters use (unified_parser.py 103, 150-152) and a
\* day-before-month variant of the last, which reads some of the same texts
\* differently.
FormatPool ==
    {"%a, %d %b %Y %H:%M:%S %z", "%a, %d %b %Y %H:%M:%S", "%Y-%m-%d %H:%M:%S",
     "%Y-%m-%dT%H:%M:%SZ", "%Y-%d-%m %H:%M:%S"}

DateInputs ==
    {"Mon, 15 Jan 2024 10:30:00 +0000", "Tue, 5 Mar 2024 1:03:00 -08:00",
     "Mon, 15 Jan 2024 10:30:00", "Mon, 15 Jan 2024 10:30:00 GMT",
     "2024-01-15 10:30:00", "2024-01-05 12:00:00", "2024-01-15T10:30:00Z",
     "2023-02-29 03:04:05", "0999-01-05 03:04:05", "2024-01-15 10:30:00 ",
     "yesterday", "No date available", ""}

CallCleanContent ==
    /\ pc = "idle"
    /\ \E content \in CleanInputs :
          /\ arg' = content
          /\ ret' = clean_content(content)
    /\ pc' = "clean_content"
    /\ UNCHANGED <<news_api_key, weather_api_key, parsers, idx, all_entries, log,
                   requests, files, output_file>>

CallFormatDate ==
    /\ pc = "idle"
    /\ \E date_str \in DateInputs, formats \in SeqsUpTo(FormatPool, MaxFormats) :
          /\ arg' = [date_str |-> date_str, formats |-> formats]
          /\ ret' = format_date(date_str, formats)
    /\ pc' = "format_date"
    /\ UNCHANGED <<news_api_key, weather_api_key, parsers, idx, all_entries, log,
                   requests, files, output_file>>

NextNorm == CallCleanContent \/ CallFormatDate

SpecNorm == Init /\ [][NextNorm]_vars

(***************************************************************************)
(* What the upstreams can answer.  The adapters are called on their own    *)
(* with feeds and article lists of up to MaxItems items; a run of main     *)
(* meets feeds of up to MaxMainItems items.                                *)
(***************************************************************************)
MaxItems == 2
MaxMainItems == 1

\* os.getenv gives None or a str.
EnvKeys == {None, "", "k"}

Statuses == {200, 300, 404, 500}

NetError == [net |-> "error"]
Http(status, data) == [net |-> "ok", status |-> status, data |-> data]
InvalidJson == {[t |-> "invalid", exc |-> e] : e \in {"ValueError", "RequestException"}}

\* Feed items as feedparser hands them over.
ItemDated ==
    [title |-> "F1: <![CDATA[Race]]> report ", summary |-> "<p>A &amp; B</p>",
     published |-> "Mon, 15 Jan 2024 10:30:00 +0000", link |-> "https://a/1"]
ItemUndated == [title |-> "No date", description |-> "plain  text\n here"]
ItemEmptyContent ==
    [title |-> "Empty content array", content |-> <<>>, summary |-> "s",
     published |-> "2024-01-05 12:00:00"]
ItemRawDate ==
    [title |-> "Raw", content |-> <<[value |-> "<![CDATA[<b>Hi</b>]]> there"],
                                    [value |-> "second"]>>,
     summary |-> "s", updated |-> "2024-01-15T10:30:00Z", link |-> "https://a/3"]
ItemUpdated == [link |-> "https://a/5", published |-> "", updated |-> "Tue, 5 Mar 2024 1:03:00"]
ItemEntity ==
    [title |-> "Ent", summary |-> "&lt;b&gt;x", published |-> "Mon, 15 Jan 2024 10:30:00 GMT"]

ItemBlank ==
    [title |-> " \n ", summary |-> "<p> </p>", published |-> "2024-01-05 12:00:00"]

RssItems ==
    {ItemDated, ItemUndated, ItemEmptyContent, ItemRawDate, ItemUpdated, ItemEntity,
     ItemBlank}
MainRssItems == {ItemDated, ItemUndated, ItemEmptyContent}

Feeds == {[entries |-> items] : items \in SeqsUpTo(RssItems, MaxItems)}
MainFeeds == {[entries |-> items] : items \in SeqsUpTo(MainRssItems, MaxMainItems)}

\* Articles of a NewsAPI body.
ArticleFull ==
    [title |-> "Hello", description |-> "Desc", content |-> "Body",
     publishedAt |-> "2024-01-05T12:00:00Z", url |-> "https://n/1",
     source |-> [t |-> "dict", name |-> "BBC News"]]
ArticleBadDate == [content |-> "Body", publishedAt |-> "yesterday"]
ArticleNullSource == [title |-> "Bad source", source |-> [t |-> "null"]]
ArticleNulls ==
    [title |-> None, description |-> "", content |-> None, publishedAt |-> None,
     url |-> None, source |-> [t |-> "dict"]]
ArticleLate == [title |-> "T", publishedAt |-> "2024-02-01 08:00:00"]

Articles == {ArticleFull, ArticleBadDate, ArticleNullSource, ArticleNulls, ArticleLate}

OkBody(articles) == [t |-> "dict", status |-> "ok", articles |-> articles]

NewsBodies ==
    {[t |-> "list"], [t |-> "dict"], [t |-> "dict", status |-> "error"],
     [t |-> "dict", status |-> "error", message |-> "bad key", articles |-> <<ArticleFull>>],
     [t |-> "dict", status |-> "ok"],
     [t |-> "dict", articles |-> <<ArticleFull>>],
     [t |-> "dict", status |-> "OK", articles |-> <<ArticleFull>>]}
        \cup {OkBody(articles) : articles \in SeqsUpTo(Articles, MaxItems)}
        \cup InvalidJson

NewsResponses == {NetError} \cup {Http(status, data) : status \in Statuses, data \in NewsBodies}

MainNewsResponses ==
    {NetError, Http(404, [t |-> "dict", status |-> "error"]),
     Http(200, [t |-> "dict", status |-> "ok"]),
     Http(200, OkBody(<<ArticleFull, ArticleBadDate>>))}

\* One Call API payloads.
CurrentOk ==
    [t |-> "dict", dt |-> Num(1705314600), sunrise |-> Num(1705300000),
     sunset |-> Num(1705340000), temp |-> Num(41), feels_like |-> Num(38),
     pressure |-> Num(1010), humidity |-> Num(60), wind_speed |-> Num(5),
     wind_deg |-> Num(200),
     weather |-> <<[t |-> "dict", description |-> "few clouds", main |-> "Clouds"]>>]
DayOk ==
    [t |-> "dict", dt |-> Num(1705320000), summary |-> "Sunny",
     temp |-> [t |-> "dict", day |-> Num(40), min |-> Num(30), max |-> Num(45)],
     humidity |-> Num(50),
     weather |-> <<[t |-> "dict", description |-> "clear sky", main |-> "Clear"]>>,
     pop |-> Num(0)]
DayWet ==
    [t |-> "dict", dt |-> Num(1705406400),
     temp |-> [t |-> "dict", min |-> Num(-3), max |-> Num(33)],
     weather |-> <<[t |-> "dict", main |-> "Rain", description |-> "rain"]>>,
     rain |-> Num(3), snow |-> Num(2), pop |-> Num(1)]
DayBare == [t |-> "dict"]
DayNullPop ==
    [t |-> "dict", dt |-> Num(1705492800),
     temp |-> [t |-> "dict", min |-> Num(1), max |-> Num(2)],
     weather |-> <<[t |-> "dict", main |-> "Snow"]>>, pop |-> Null]
DayNoWeather == [t |-> "dict", dt |-> Num(1705492800), weather |-> <<>>]

Payload(current, daily) == [t |-> "dict", current |-> current, daily |-> daily]

WeatherBodies ==
    {[t |-> "list"], [t |-> "dict"], [t |-> "dict", current |-> CurrentOk],
     [t |-> "dict", current |-> Null],
     [t |-> "dict", current |-> [t |-> "dict", weather |-> <<>>]],
     [t |-> "dict", current |-> CurrentOk,
      hourly |-> <<[t |-> "dict", dt |-> Num(1), weather |-> <<>>]>>],
     Payload(CurrentOk, <<DayOk>>),
     Payload(CurrentOk, <<DayOk, DayWet, DayBare>>),
     Payload(CurrentOk, <<DayNullPop>>),
     Payload(CurrentOk, <<DayOk, DayWet, DayNullPop>>),
     Payload(CurrentOk, <<DayOk, DayOk, DayOk, DayOk, DayNullPop>>),
     Payload(CurrentOk, <<DayOk, DayWet, DayOk, DayWet, DayOk, DayNullPop>>),
     Payload(CurrentOk, <<DayOk, DayOk, DayOk, DayOk, DayOk, DayOk, DayNoWeather>>),
     Payload(CurrentOk, <<DayNoWeather>>)}
        \cup InvalidJson

WeatherResponses ==
    {NetError} \cup {Http(status, data) : status \in Statuses, data \in WeatherBodies}

MainWeatherResponses ==
    {Http(500, [t |-> "dict"]), Http(200, Payload(CurrentOk, <<DayOk, DayWet>>)),
     Http(200, Payload(CurrentOk, <<DayOk, DayNullPop>>))}

\* datetime.now(), as a POSIX timestamp.
NowValues == {1705314645, 1705400000}
MainNowValues == {1705314645}

(***************************************************************************)
(* The adapters called on their own.                                       *)
(***************************************************************************)
CallParseRss ==
    /\ pc = "idle"
    /\ \E i \in 1..3, feed \in Feeds :
          LET self == UnifiedNewsParser(news_sources[i].url, news_sources[i].name, None)
          IN  /\ arg' = [self |-> self, upstream |-> feed]
              /\ ret' = UnifiedNewsParser_parse(self, feed)
    /\ requests' = ret'.gets
    /\ pc' = "parse_rss"
    /\ UNCHANGED <<news_api_key, weather_api_key, parsers, idx, all_entries, log,
                   files, output_file>>

CallParseNewsapi ==
    /\ pc = "idle"
    /\ \E key \in EnvKeys, resp \in NewsResponses :
          LET self == UnifiedNewsParser(news_sources[4].url, news_sources[4].name, key)
          IN  /\ arg' = [self |-> self, upstream |-> resp]
              /\ ret' = UnifiedNewsParser_parse(self, resp)
    /\ requests' = ret'.gets
    /\ pc' = "parse_newsapi"
    /\ UNCHANGED <<news_api_key, weather_api_key, parsers, idx, all_entries, log,
                   files, output_file>>

CallParseWeather ==
    /\ pc = "idle"
    /\ \E resp \in WeatherResponses, now \in NowValues :
          /\ arg' = [self |-> WeatherParser("k"), upstream |-> resp, now |-> now]
          /\ ret' = WeatherParser_parse(WeatherParser("k"), resp, now)
    /\ requests' = ret'.gets
    /\ pc' = "parse_weather"
    /\ UNCHANGED <<news_api_key, weather_api_key, parsers, idx, all_entries, log,
                   files, output_file>>

(***************************************************************************)
(* The renderer called on its own: generate_entry_html on EntryPool,       *)
(* generate_html on the lists of up to MaxRenderEntries entries of         *)
(* CategoryPool, save_html on those of SavePool.                           *)
(***************************************************************************)
MaxRenderEntries == 3

\* s * n, by halving.
Twice(s) == s \o s
RECURSIVE Repeat(_, _)
Repeat(s, n) ==
    IF n = 0 THEN ""
    ELSE IF n % 2 = 0 THEN Twice(Repeat(s, n \div 2))
    ELSE s \o Repeat(s, n - 1)

\* Entries with contents around the length of the preview, with and without
\* a link, with fields that are None or empty, with a datetime as date.
EntryPool ==
    {FeedEntry("Short", "Body", "2024-01-05 12:00", "https://n/1", "BBC News", "Tech"),
     FeedEntry("Below", Repeat("x", 499), "2024-01-05 12:00", "https://n/2", "BBC News", "Tech"),
     FeedEntry("Edge", Repeat("x", 500), NoDateAvailable, "", "BBC News", "US News"),
     FeedEntry("Long", Repeat("x", 501), "2024-01-15 10:30:00", None, "OpenWeather", "Weather"),
     FeedEntry("Longer", Repeat("ab", 400), Datetime("2024-01-05 12:00:00"), "https://n/3",
               "BBC News", "Tech"),
     FeedEntry(None, None, None, None, None, None),
     FeedEntry("", "", "", "", "", "")}

\* Entries of the categories of category_order, of two others, and of none.
CategoryPool ==
    {FeedEntry("w", "Sunny", "2024-01-15 10:30:00", None, "OpenWeather", "Weather"),
     FeedEntry("u", "Desc", "2024-01-05 12:00", "https://n/1", "US News - BBC News", "US News"),
     FeedEntry("t1", Repeat("x", 501), "2024-01-05 12:00", "", "Tech Feed", "Tech"),
     FeedEntry("t2", "Body", NoDateAvailable, "https://t/2", "Tech Feed", "Tech"),
     FeedEntry("s", "Body", "2024-02-01 08:00", "https://s/1", "Sports Feed", "Sports"),
     FeedEntry("n", "Body", "2024-01-05 12:00", "https://x/1", "X", None),
     FeedEntry("e", "Body", "2024-01-05 12:00", "https://x/2", "X", "")}

\* Entries as the adapters make them (a str as date) and entries with a
\* datetime as date, of sources whose file names differ, coincide, or are
\* index.html, and of no source.
SavePool ==
    {FeedEntry("a", "Body", Datetime("2024-01-05 12:00:00"), "https://n/1", "BBC News", "US News"),
     FeedEntry("b", Repeat("x", 501), Datetime("2024-01-15 00:30:00"), None, "BBC News", "US News"),
     FeedEntry("c", "Body", "2024-01-05 12:00", "https://a/1", "Autosport F1", "Autosport F1"),
     FeedEntry("d", "Body", Datetime("2024-01-05 12:00:00"), "", "bbc news", "US News"),
     FeedEntry("e", "Body", Datetime("2024-01-05 12:00:00"), "https://i/1", "Index", "Tech"),
     FeedEntry("f", "Body", Datetime("2024-01-05 12:00:00"), "https://f/1", None, "Tech")}

\* The weather_entries of a call of save_html.
WeatherLists ==
    {<<>>,
     <<FeedEntry("Current Weather Conditions", Repeat("x", 501), "2024-01-15 10:30:00",
                 None, "OpenWeather", "Weather")>>}

CallGenerateEntryHtml ==
    /\ pc = "idle"
    /\ \E entry \in EntryPool :
          /\ arg' = entry
          /\ ret' = generate_entry_html(entry)
    /\ pc' = "generate_entry_html"
    /\ UNCHANGED <<news_api_key, weather_api_key, parsers, idx, all_entries, log,
                   requests, files, output_file>>

\* ret keeps the document and the sections it is made of, in their order.
CallGenerateHtml ==
    /\ pc = "idle"
    /\ \E entries \in SeqsUpTo(CategoryPool, MaxRenderEntries), now \in NowValues :
          /\ arg' = [entries |-> entries, title |-> "Daily News Dashboard", now |-> now]
          /\ ret' = [html |-> generate_html(entries, "Daily News Dashboard", now),
                     sections |-> Sections(entries)]
    /\ pc' = "generate_html"
    /\ UNCHANGED <<news_api_key, weather_api_key, parsers, idx, all_entries, log,
                   requests, files, output_file>>

CallSaveHtml ==
    /\ pc = "idle"
    /\ \E entries \in SeqsUpTo(SavePool, MaxRenderEntries),
          weather_entries \in WeatherLists, now \in MainNowValues :
          /\ arg' = [entries |-> entries, title |-> "Daily News Dashboard",
                     weather_entries |-> weather_entries, now |-> now]
          /\ ret' = save_html(entries, "Daily News Dashboard", weather_entries, now)
    /\ files' = {ret'.writes[i].name : i \in 1..Len(ret'.writes)}
    /\ output_file' = ret'.path
    /\ pc' = "save_html"
    /\ UNCHANGED <<news_api_key, weather_api_key, parsers, idx, all_entries, log,
                   requests>>

(***************************************************************************)
(* A run of main.                                                          *)
(***************************************************************************)
\* main.py 51-89: the keys are read and the parsers built.
MainStart ==
    /\ pc = "idle"
    /\ \E nk \in EnvKeys, wk \in EnvKeys :
          /\ news_api_key' = nk
          /\ weather_api_key' = wk
          /\ parsers' = BuildParsers(nk, wk)
    /\ idx' = 1
    /\ pc' = "collect"
    /\ UNCHANGED <<all_entries, log, requests, files, output_file, arg, ret>>

\* What the upstream of a parser can answer during a run.
MainUpstreams(parser) ==
    IF parser.cls = "WeatherParser" THEN MainWeatherResponses
    ELSE IF is_newsapi_url(parser) THEN MainNewsResponses
    ELSE MainFeeds

\* main.py 93-99: one turn of the collection loop.  ret is what the call of
\* parse() came to; log keeps, for every parser called, whether parse()
\* raised and what it returned.
Collect ==
    /\ pc = "collect"
    /\ idx <= Len(parsers)
    /\ \E upstream \in MainUpstreams(parsers[idx]), now \in MainNowValues :
          ret' = Parse(parsers[idx], upstream, now)
    /\ all_entries' = Extend(all_entries, ret')
    /\ log' = Append(log, [name |-> parsers[idx].name,
                           raised |-> ret'.raised,
                           entries |-> IF ret'.raised THEN <<>> ELSE ret'.entries])
    /\ requests' = requests \o ret'.gets
    /\ idx' = idx + 1
    /\ UNCHANGED <<pc, news_api_key, weather_api_key, parsers, files, output_file,
                   arg>>

\* The loop is over.
CollectDone ==
    /\ pc = "collect"
    /\ idx > Len(parsers)
    /\ pc' = "sort"
    /\ UNCHANGED <<news_api_key, weather_api_key, parsers, idx, all_entries, log,
                   requests, files, output_file, arg, ret>>

\* main.py 102.
Sort ==
    /\ pc = "sort"
    /\ all_entries' = SortByPublishedDesc(all_entries)
    /\ pc' = "render"
    /\ UNCHANGED <<news_api_key, weather_api_key, parsers, idx, log, requests,
                   files, output_file, arg, ret>>

\* main.py 105-112: save_html is called with the keywords entries, title and
\* filename.  A keyword the function does not declare is a TypeError, raised
\* before the body runs; an exception inside save_html is not caught either,
\* and main ends there.
Render ==
    /\ pc = "render"
    /\ IF MainSaveHtmlKeywords \subseteq SaveHtmlParams
       THEN \E now \in MainNowValues :
                /\ ret' = save_html(all_entries, "Daily News Dashboard", <<>>, now)
                /\ files' = files \cup {ret'.writes[i].name : i \in 1..Len(ret'.writes)}
                /\ output_file' = ret'.path
                /\ pc' = IF ret'.raised THEN "crashed" ELSE "done"
       ELSE /\ pc' = "crashed"
            /\ UNCHANGED <<files, output_file, ret>>
    /\ UNCHANGED <<news_api_key, weather_api_key, parsers, idx, all_entries, log,
                   requests, arg>>

Next ==
    \/ CallParseRss
    \/ CallParseNewsapi
    \/ CallParseWeather
    \/ CallGenerateEntryHtml
    \/ CallGenerateHtml
    \/ CallSaveHtml
    \/ MainStart
    \/ Collect
    \/ CollectDone
    \/ Sort
    \/ Render

Spec == Init /\ [][Next]_vars

(***************************************************************************)
(* Properties of the content normalizer.                                   *)
(***************************************************************************)

\* A substring of the form <...>: a '<', at least one character, a '>'.
\* Does s hold a match of <[^>]+> : a "<", one or more characters other
\* than ">", and a ">".
HasTag(s) ==
    \E i \in 1..Len(s) : \E j \in (i + 2)..Len(s) :
        /\ Char(s, i) = "<"
        /\ Char(s, j) = ">"
        /\ \A k \in (i + 1)..(j - 1) : Char(s, k) # ">"

\* C9: clean_content is idempotent and its result holds no tag-shaped
\* substring, for every input: cleaning the result again changes nothing
\* and the result has no <...> in it.
C9_CleanIdempotentNoTags ==
    pc = "clean_content" => (clean_content(ret) = ret /\ ~HasTag(ret))

\* YYYY-MM-DD HH:MM: sixteen characters, digits around "-", "-", " ", ":".
IsCanonicalDate(s) ==
    /\ Len(s) = 16
    /\ \A i \in 1..16 :
          IF i \in {5, 8} THEN Char(s, i) = "-"
          ELSE IF i = 11 THEN Char(s, i) = " "
          ELSE IF i = 14 THEN Char(s, i) = ":"
          ELSE IsDigit(Char(s, i))

\* C10: format_date returns the canonical YYYY-MM-DD HH:MM rendering of the
\* date read by the first candidate format, in list order, that matches the
\* text: sixteen characters of that shape; when no candidate matches, or the
\* list is empty, it returns the text unchanged.
C10_FormatDateFirstMatch ==
    pc = "format_date" =>
        LET date_str == arg.date_str
            formats == arg.formats
            hits == {k \in 1..Len(formats) : Strptime(date_str, formats[k]).ok}
        IN  IF hits = {} THEN ret = date_str
            ELSE /\ ret = StrftimeMinutes(Strptime(date_str, formats[Min(hits)]))
                 /\ IsCanonicalDate(ret)

(***************************************************************************)
(* The aggregation loop of main.                                           *)
(***************************************************************************)
\* The lists the parsers called so far returned, one after the other; a
\* parser that raised returned nothing.
RECURSIVE ConcatReturned(_)
ConcatReturned(l) ==
    IF Len(l) = 0 THEN <<>>
    ELSE (IF l[1].raised THEN <<>> ELSE l[1].entries) \o ConcatReturned(Tail(l))

InMain == pc \in {"collect", "sort", "render", "done", "crashed"}

\* C1: in a run of main the parsers are called once each in the configured
\* order (the i-th call is the i-th parser's, and when the loop is over
\* every parser has been called), and whatever parser raised, the merged
\* list is the lists returned by the others, those before and those after
\* it, with nothing of the raising one.
C1_AggregationSurvivesRaise ==
    pc \in {"collect", "sort"} =>
        /\ Len(log) = idx - 1
        /\ Len(log) <= Len(parsers)
        /\ \A i \in 1..Len(log) : log[i].name = parsers[i].name
        /\ pc = "sort" => Len(log) = Len(parsers)
        /\ all_entries = ConcatReturned(log)

\* Witness of C1: the loop is over, a parser raised, one before it and one
\* after it returned entries, and the merged list holds them.
C1_Witness ==
    /\ pc = "sort"
    /\ \E i, j, k \in 1..Len(log) :
          /\ i < j /\ j < k
          /\ ~log[i].raised /\ Len(log[i].entries) > 0
          /\ log[j].raised
          /\ ~log[k].raised /\ Len(log[k].entries) > 0
          /\ Len(all_entries) >= Len(log[i].entries) + Len(log[k].entries)

(***************************************************************************)
(* The adapters' own boundary.                                             *)
(***************************************************************************)
AdapterCalled == pc \in {"parse_rss", "parse_newsapi", "parse_weather"}

\* C2: no call of an adapter's parse() lets an exception out, whatever the
\* upstream answered: called on its own or from main's loop, parse()
\* returns a list.
C2_ParseNeverRaises ==
    /\ AdapterCalled => ~ret.raised
    /\ InMain => \A i \in 1..Len(log) : ~log[i].raised

\* C3: the weather adapter's parse() returns no entry or two entries,
\* never one and never more, whatever the payload and wherever it fails.
C3_WeatherZeroOrTwo ==
    pc = "parse_weather" => (~ret.raised /\ Len(ret.entries) \in {0, 2})

(***************************************************************************)
(* The merged list after the sort.                                         *)
(***************************************************************************)
Sorted == pc \in {"render", "done", "crashed"}

\* The entries of a list with a given published value, in the list's order.
WithPublished(entries, p) == SelectSeq(entries, LAMBDA e : e.published = p)

\* The published values of a list.
PublishedOf(entries) == {entries[i].published : i \in 1..Len(entries)}

\* C4: after the sort no entry of the merged list is followed by one with a
\* greater published value (str comparison), and the entries with one
\* published value stand in the order they had in the concatenation of the
\* lists the adapters returned; nothing is lost or added.
C4_SortedDescendingStable ==
    Sorted =>
        /\ Len(all_entries) = Len(ConcatReturned(log))
        /\ \A i \in 1..(Len(all_entries) - 1) :
              ~StrLess(all_entries[i].published, all_entries[i + 1].published)
        /\ \A p \in PublishedOf(ConcatReturned(log)) :
              WithPublished(all_entries, p) = WithPublished(ConcatReturned(log), p)

\* Witness of C4: the sort moved entries, and the sorted list has two
\* different entries with one published value as well as entries with
\* different published values.
C4_Witness ==
    /\ pc = "render"
    /\ all_entries # ConcatReturned(log)
    /\ \E i, j \in 1..Len(all_entries) :
          /\ i < j
          /\ all_entries[i].published = all_entries[j].published
          /\ all_entries[i] # all_entries[j]
    /\ \E i, j \in 1..Len(all_entries) :
          all_entries[i].published # all_entries[j].published

\* The minute a canonical YYYY-MM-DD HH:MM text names, counted from 1970.
Chrono(s) ==
    DaysFromCivil(StrToInt(SubSeq(s, 1, 4)), StrToInt(SubSeq(s, 6, 7)),
                  StrToInt(SubSeq(s, 9, 10))) * 1440
        + StrToInt(SubSeq(s, 12, 13)) * 60 + StrToInt(SubSeq(s, 15, 16))

\* C5: in the sorted list every entry published "No date available" stands
\* before every entry with a canonical date, and the entries with canonical
\* dates stand latest first.
C5_SentinelFirstThenNewest ==
    Sorted =>
        \A i, j \in 1..Len(all_entries) :
            LET a == all_entries[i].published
                b == all_entries[j].published
            IN  /\ (a = NoDateAvailable /\ IsCanonicalDate(b)) => i < j
                /\ (i < j /\ IsCanonicalDate(a) /\ IsCanonicalDate(b))
                      => Chrono(a) >= Chrono(b)

\* Witness of C5: a sorted list that begins with an undated entry and holds
\* two canonical dates, the later one first.
C5_Witness ==
    /\ pc = "render"
    /\ Len(all_entries) >= 3
    /\ all_entries[1].published = NoDateAvailable
    /\ \E i, j \in 1..Len(all_entries) :
          /\ i < j
          /\ IsCanonicalDate(all_entries[i].published)
          /\ IsCanonicalDate(all_entries[j].published)
          /\ Chrono(all_entries[i].published) > Chrono(all_entries[j].published)

(***************************************************************************)
(* The end of a run.                                                       *)
(***************************************************************************)
\* C6: a run of main that has ended, whatever the adapters returned or
\* raised, has written index.html and holds its path.
C6_RunWritesIndex ==
    pc \in {"done", "crashed"} => ("index.html" \in files /\ output_file = "index.html")

(***************************************************************************)
(* The headline adapter's failures, and missing keys.                      *)
(***************************************************************************)
\* The body is a JSON object whose status field is not "ok" (or is absent).
StatusNotOk(data) == data.t = "dict" /\ Get(data, "status", None) # "ok"

\* C7 as stated: the headline adapter's parse() returns an empty list and
\* does not raise whenever the response is non-2xx or the body's status
\* field is not "ok".
C7_EmptyOnNon2xxOrStatusNotOk ==
    (/\ pc = "parse_newsapi"
     /\ arg.upstream.net = "ok"
     /\ \/ arg.upstream.status \notin 200..299
        \/ StatusNotOk(arg.upstream.data))
        => (~ret.raised /\ ret.entries = <<>>)

\* C7, amended: the headline adapter's parse() returns an empty list and
\* does not raise whenever the request fails in the network, the response
\* has a 4xx or 5xx status (what raise_for_status rejects), or the body is
\* a JSON object whose status field is not "ok" - with or without a message
\* or an articles field in it.
C7_EmptyOnErrorStatusOrStatusNotOk ==
    (/\ pc = "parse_newsapi"
     /\ \/ arg.upstream.net = "error"
        \/ arg.upstream.status \in 400..599
        \/ StatusNotOk(arg.upstream.data))
        => (~ret.raised /\ ret.entries = <<>>)

\* Witness of C7: with a key, a request was made; the answer was a 404 with
\* a body that says "ok" and has an article, and nothing came back.
C7_Witness ==
    /\ pc = "parse_newsapi"
    /\ Truthy(arg.self.api_key)
    /\ requests = <<arg.self.url>>
    /\ arg.upstream.net = "ok"
    /\ arg.upstream.status = 404
    /\ arg.upstream.data = OkBody(<<ArticleFull>>)
    /\ ret.entries = <<>>

NewsapiUrl == news_sources[4].url
WeatherUrl == WeatherParser("k").base_url
Requested(url) == \E i \in 1..Len(requests) : requests[i] = url
Called(name) == \E i \in 1..Len(log) : log[i].name = name

\* C8: in a run of main without the headline key (None or empty) no request
\* goes to the headline API, its parser is never called and no entry of its
\* category is merged; the same for the weather key and the weather API;
\* and when the loop is over every feed adapter has been called, its feed
\* requested, and what it returned is in the merged list.  A headline
\* adapter called on its own without a key returns an empty list and no
\* request is made.
C8_MissingKeySkipsSource ==
    /\ InMain =>
          /\ ~Truthy(news_api_key) =>
                /\ ~Requested(NewsapiUrl)
                /\ ~Called("US News")
                /\ \A i \in 1..Len(all_entries) : all_entries[i].category # "US News"
          /\ ~Truthy(weather_api_key) =>
                /\ ~Requested(WeatherUrl)
                /\ ~Called("Weather Forecast")
                /\ \A i \in 1..Len(all_entries) : all_entries[i].category # "Weather"
          /\ pc # "collect" =>
                \A k \in 1..3 :
                    /\ Requested(news_sources[k].url)
                    /\ \E i \in 1..Len(log) :
                          /\ log[i].name = news_sources[k].name
                          /\ \A n \in 1..Len(log[i].entries) :
                                \E m \in 1..Len(all_entries) :
                                    all_entries[m] = log[i].entries[n]
    /\ (pc = "parse_newsapi" /\ ~Truthy(arg.self.api_key)) =>
          (ret = Returned(<<>>, <<>>) /\ requests = <<>>)

\* Witness of C8: a run without either key whose three feeds each gave an
\* entry: three requests were made, and three entries merged.
C8_Witness ==
    /\ pc = "sort"
    /\ ~Truthy(news_api_key)
    /\ ~Truthy(weather_api_key)
    /\ Len(requests) = 3
    /\ Len(all_entries) = 3
    /\ \A i \in 1..3 : ~log[i].raised /\ Len(log[i].entries) = 1

(***************************************************************************)
(* The entries the adapters hand over.                                     *)
(***************************************************************************)
\* C11: every entry an adapter returns, and every entry of the merged list
\* of a run, has a published value that is a canonical YYYY-MM-DD HH:MM text
\* or "No date available": no raw upstream text and no timestamp with
\* seconds.
C11_PublishedCanonicalOrSentinel ==
    /\ (AdapterCalled /\ ~ret.raised) =>
          \A i \in 1..Len(ret.entries) :
              \/ IsCanonicalDate(ret.entries[i].published)
              \/ ret.entries[i].published = NoDateAvailable
    /\ InMain =>
          \A i \in 1..Len(all_entries) :
              \/ IsCanonicalDate(all_entries[i].published)
              \/ all_entries[i].published = NoDateAvailable

\* C12: every entry an adapter returns has a title, a content and a
\* published value that are not empty (a placeholder counts), whatever the
\* item held: an empty, blank or null title, a content made of markup only.
C12_FieldsNonEmpty ==
    (AdapterCalled /\ ~ret.raised) =>
        \A i \in 1..Len(ret.entries) :
            /\ Truthy(ret.entries[i].title)
            /\ Truthy(ret.entries[i].content)
            /\ Truthy(ret.entries[i].published)

\* The date text of a feed item that has one: its published field, or its
\* updated field, whichever is there and not empty.
ItemDates(item) ==
    {item[k] : k \in {f \in {"published", "updated"} : f \in DOMAIN item /\ Truthy(item[f])}}

\* C18: the headline adapter gives an article the canonical rendering of its
\* publishedAt read as ISO-8601 with a literal Z, and "No date available"
\* when publishedAt is missing, empty or not of that form, never the raw
\* text; the feed adapter gives an item the canonical rendering of its date
\* under the first of its three formats that matches, the raw text unchanged
\* when none matches, and "No date available" only when the item has no
\* published or updated date at all.
C18_AdapterDateFallbacks ==
    /\ (pc = "parse_newsapi" /\ ~ret.raised) =>
          \A i \in 1..Len(ret.entries) :
              LET raw == Get(arg.upstream.data.articles[i], "publishedAt", None)
                  iso == "%Y-%m-%dT%H:%M:%SZ"
                  p == ret.entries[i].published
              IN  IF Truthy(raw) /\ Strptime(raw, iso).ok
                  THEN p = StrftimeMinutes(Strptime(raw, iso)) /\ IsCanonicalDate(p)
                  ELSE p = NoDateAvailable
    /\ (pc = "parse_rss" /\ ~ret.raised) =>
          \A i \in 1..Len(ret.entries) :
              LET item == arg.upstream.entries[i]
                  p == ret.entries[i].published
              IN  /\ p = NoDateAvailable => ItemDates(item) = {}
                  /\ ItemDates(item) # {} =>
                        \E raw \in ItemDates(item) :
                            LET hits == {k \in 1..3 : Strptime(raw, date_formats[k]).ok}
                            IN  IF hits = {} THEN p = raw
                                ELSE p = StrftimeMinutes(Strptime(raw, date_formats[Min(hits)]))

(***************************************************************************)
(* The renderer.                                                           *)
(***************************************************************************)
\* sub occurs in s; the places where it does.
Occurrences(s, sub) ==
    {i \in 1..(Len(s) - Len(sub) + 1) : SubSeq(s, i, i + Len(sub) - 1) = sub}
HasText(s, sub) == Occurrences(s, sub) # {}

\* The section an entry belongs to.
CategoryOf(entry) == IF Truthy(entry.category) THEN entry.category ELSE "Uncategorized"

\* The place of a category in the priority list, 0 for one that is not in it.
Rank(c) == IF c = "Weather" THEN 1 ELSE IF c = "US News" THEN 2 ELSE 0

\* Where a category is first seen in a list.
FirstSeen(entries, c) == Min({i \in 1..Len(entries) : CategoryOf(entries[i]) = c})

\* C13: the single document has one section per category of the list and
\* none twice; the categories Weather and US News come first, in that
\* order, when they are there, and the others follow in the order they are
\* first seen in the list; an entry whose category is None or empty is in
\* the section Uncategorized.
C13_SectionOrder ==
    pc = "generate_html" =>
        LET entries == arg.entries
            n == Len(ret.sections)
            name(i) == ret.sections[i].key
        IN  /\ {name(i) : i \in 1..n} = {CategoryOf(entries[j]) : j \in 1..Len(entries)}
            /\ \A i, j \in 1..n : i < j =>
                  /\ name(i) # name(j)
                  /\ IF Rank(name(j)) > 0
                     THEN Rank(name(i)) > 0 /\ Rank(name(i)) < Rank(name(j))
                     ELSE \/ Rank(name(i)) > 0
                          \/ FirstSeen(entries, name(i)) < FirstSeen(entries, name(j))

\* Witness of C13: a list that begins with an entry of no category and goes
\* on with US News and Weather was rendered as Weather, US News,
\* Uncategorized.
C13_Witness ==
    /\ pc = "generate_html"
    /\ Len(arg.entries) = 3
    /\ arg.entries[1].category = None
    /\ arg.entries[2].category = "US News"
    /\ arg.entries[3].category = "Weather"
    /\ [i \in 1..Len(ret.sections) |-> ret.sections[i].key]
           = <<"Weather", "US News", "Uncategorized">>

\* The distinct sources of a list in the order they are first seen.
FirstOfSource(entries) ==
    {i \in 1..Len(entries) : \A j \in 1..(i - 1) : entries[j].source # entries[i].source}
SourcesInOrder(entries) ==
    [k \in 1..Cardinality(FirstOfSource(entries)) |->
        entries[CHOOSE i \in FirstOfSource(entries) :
                    Cardinality({j \in FirstOfSource(entries) : j <= i}) = k].source]

\* The per-source pages among the files save_html wrote: all of them but the
\* index.html it ends with when it returns.
PageCount == IF ret.raised THEN Len(ret.writes) ELSE Len(ret.writes) - 1

\* name is source in lower case with "_" for every space, and ".html".
IsFileNameOf(name, source) ==
    /\ Len(name) = Len(source) + 5
    /\ SubSeq(name, Len(source) + 1, Len(name)) = ".html"
    /\ \A k \in 1..Len(source) :
          Char(name, k) = IF Char(source, k) = " " THEN "_" ELSE LowerChar(Char(source, k))

\* C14: every per-source page save_html writes is written under the name made
\* of its source in lower case, with underscores for spaces, and ".html"
\* (the page of "BBC News" is bbc_news.html), and the index it writes links
\* every source by that very name, in the order of the sources.
C14_PageNames ==
    pc = "save_html" =>
        LET sources == SourcesInOrder(arg.entries)
        IN  /\ PageCount <= Len(sources)
            /\ \A i \in 1..PageCount :
                  /\ IsFileNameOf(ret.writes[i].name, sources[i])
                  /\ sources[i] = "BBC News" => ret.writes[i].name = "bbc_news.html"
            /\ ~ret.raised =>
                  /\ PageCount = Len(sources)
                  /\ ret.writes[Len(ret.writes)].text =
                         _generate_index_html(arg.weather_entries,
                             [i \in 1..PageCount |-> <<sources[i], ret.writes[i].name>>],
                             arg.now)

\* Witness of C14: save_html returned after it wrote the page of BBC News as
\* bbc_news.html, the page of another source, and the index.
C14_Witness ==
    /\ pc = "save_html"
    /\ ~ret.raised
    /\ Len(ret.writes) = 3
    /\ \E i \in 1..2 :
          /\ SourcesInOrder(arg.entries)[i] = "BBC News"
          /\ ret.writes[i].name = "bbc_news.html"
    /\ HasText(ret.writes[3].text, "<a href=\"bbc_news.html\" class=\"feed-link\">")

\* C15: save_html, whatever the list, returns the path of index.html after
\* it wrote one page per distinct source and then index.html: as many files
\* as there are sources and one more, no two under one name, none of the
\* pages under the name index.html, index.html last.
C15_SaveHtmlWritesAll ==
    pc = "save_html" =>
        /\ ~ret.raised
        /\ ret.path = "index.html"
        /\ output_file = "index.html"
        /\ Len(ret.writes) = Len(SourcesInOrder(arg.entries)) + 1
        /\ \A i, j \in 1..Len(ret.writes) : i < j => ret.writes[i].name # ret.writes[j].name
        /\ \A i \in 1..Len(ret.writes) :
              ret.writes[i].name = "index.html" <=> i = Len(ret.writes)
        /\ Cardinality(files) = Len(SourcesInOrder(arg.entries)) + 1

\* How often an entry occurs in a list.
Count(entries, e) == Cardinality({i \in 1..Len(entries) : entries[i] = e})
Range(entries) == {entries[i] : i \in 1..Len(entries)}

\* C16: once main has sorted the merged list, and after it has called the
\* renderer, the list holds the entries the adapters returned, each as
\* often as it was returned and with every field as it was returned, and
\* nothing else.
C16_MergedListIsPermutation ==
    Sorted =>
        /\ Len(all_entries) = Len(ConcatReturned(log))
        /\ \A e \in Range(all_entries) \cup Range(ConcatReturned(log)) :
              Count(all_entries, e) = Count(ConcatReturned(log), e)

\* Witness of C16: main has called the renderer with a merged list of four
\* or more entries, from three adapters or more, that the sort had put in
\* another order.
C16_Witness ==
    /\ pc = "crashed"
    /\ Len(all_entries) >= 4
    /\ Cardinality({i \in 1..Len(log) : ~log[i].raised /\ Len(log[i].entries) > 0}) >= 3
    /\ all_entries # ConcatReturned(log)

\* C17: the groups of the single document (by category) and of save_html
\* (by source) hold every entry of the list once, in the order of the list:
\* a group is the entries of its key in list order, no key has two groups,
\* and every group is rendered once: as one section, as one written page.
C17_GroupingPartitions ==
    /\ pc = "generate_html" =>
          /\ \A i, j \in 1..Len(ret.sections) :
                i # j => ret.sections[i].key # ret.sections[j].key
          /\ \A e \in Range(arg.entries) :
                \E i \in 1..Len(ret.sections) : ret.sections[i].key = CategoryOf(e)
          /\ \A i \in 1..Len(ret.sections) :
                ret.sections[i].entries =
                    SelectSeq(arg.entries, LAMBDA e : CategoryOf(e) = ret.sections[i].key)
    /\ pc = "save_html" =>
          \A s \in {arg.entries[i].source : i \in 1..Len(arg.entries)} :
              Cardinality({i \in 1..PageCount :
                  ret.writes[i].text =
                      _generate_feed_html(SelectSeq(arg.entries, LAMBDA e : e.source = s),
                                          arg.title, s).html}) = 1

\* The entries of the i-th source of a list, in list order.
EntriesOfSource(entries, i) ==
    SelectSeq(entries, LAMBDA e : e.source = SourcesInOrder(entries)[i])

\* C19: no document holds a "Read more" anchor for an entry whose link is
\* None or empty, nor an anchor whose href is empty or None: the rendering
\* of a single entry has the anchor exactly when the entry has a link, and
\* a per-source page has as many "Read more" anchors as it has entries
\* with a link.
C19_ReadMoreOnlyWithLink ==
    /\ pc = "generate_entry_html" =>
          /\ HasText(ret, "Read more") <=> Truthy(arg.link)
          /\ ~HasText(ret, "href=\"\"")
          /\ ~HasText(ret, "href=\"None\"")
    /\ pc = "save_html" =>
          \A i \in 1..PageCount :
              /\ Cardinality(Occurrences(ret.writes[i].text, "Read more"))
                     = Len(SelectSeq(EntriesOfSource(arg.entries, i),
                                     LAMBDA e : Truthy(e.link)))
              /\ ~HasText(ret.writes[i].text, "href=\"\"")
              /\ ~HasText(ret.writes[i].text, "href=\"None\"")

\* The text between the first open and the next close after it.
Between(s, open, close) ==
    LET start == Min(Occurrences(s, open)) + Len(open)
        end == Min({i \in Occurrences(s, close) : i >= start})
    IN  SubSeq(s, start, end - 1)

\* The content an entry is rendered with: its own, or the placeholder.
Shown(entry) == IF Truthy(entry.content) THEN entry.content ELSE "No content available"

\* The contents a page shows, in the order of the page: what stands between
\* each <div class="content"> and the </div> that closes it.
ContentAt(text, p, content) ==
    /\ p + 20 + Len(content) + 6 <= Len(text)
    /\ SubSeq(text, p + 21, p + 20 + Len(content)) = content
    /\ SubSeq(text, p + 21 + Len(content), p + 26 + Len(content)) = "</div>"
ShowsAt(text, entries, places) ==
    /\ Cardinality(places) = Len(entries)
    /\ \A k \in 1..Len(entries) :
          \E p \in places :
              /\ Cardinality({q \in places : q <= p}) = k
              /\ ContentAt(text, p, FStr(entries[k].content))
ShowsInFull(text, entries) ==
    ShowsAt(text, entries, Occurrences(text, "<div class=\"content\">"))

\* C20: generate_entry_html shows a content of up to 500 characters as it
\* is and a longer one as its first 500 characters and "...", 503
\* characters in all; the per-source pages and the index save_html writes
\* show every content whole, whatever its length.
C20_PreviewOnlyInSingleDocument ==
    /\ pc = "generate_entry_html" =>
          LET shown == Between(ret, "<div class=\"entry-content\">\n                ",
                               "\n            </div>")
          IN  IF Len(Shown(arg)) <= 500 THEN shown = Shown(arg)
              ELSE /\ shown = SubSeq(Shown(arg), 1, 500) \o "..."
                   /\ Len(shown) = 503
    /\ pc = "save_html" =>
          /\ \A i \in 1..PageCount :
                ShowsInFull(ret.writes[i].text, EntriesOfSource(arg.entries, i))
          /\ ~ret.raised =>
                ShowsInFull(ret.writes[Len(ret.writes)].text, arg.weather_entries)

\* Witness of C20: an entry with a content of 501 characters was rendered
\* on its own, with 503 characters between the tags of its content.
C20_Witness ==
    /\ pc = "generate_entry_html"
    /\ Len(arg.content) = 501
    /\ HasText(ret, SubSeq(arg.content, 1, 500) \o "...\n")
    /\ ~HasText(ret, arg.content)

==============================================================================
